---- MODULE Spec2Model ----
(***************************************************************************)
(* Model of cng3: the message bus and plugin router (messages.rs,          *)
(* plugins_main.rs), the NAS synchronisation engine (plugin_nas.rs,        *)
(* nas_info.rs, web.rs) and the shutdown broadcast (main.rs, web.rs).      *)
(*                                                                         *)
(* The specifications share the variables:                                 *)
(*   SpecPlan   one reconciliation pass over a pair of folders;            *)
(*   Spec       the bus consumer, the router, producers and shutdown;      *)
(*   FairSpec   the shutdown path of Spec under weak fairness;             *)
(*   SpecNas    a NAS client node: bus, nas plugin, reconciliation loops;  *)
(*   SpecRetry  SpecNas from a client that has not heard of the server;    *)
(*   SpecCmd    one command handled in a state earlier commands left;      *)
(*   SpecList   FileList::new and the plan over filenames as characters;   *)
(*   SpecMon    the file watcher of the monitor plugin and its debounce;   *)
(*   SpecWeb    the upload, remove and download endpoints (web.rs);        *)
(*   SpecPush   the output buffer of a panel (plugin_panels.rs);           *)
(*   SpecPanels the geometry commands of the panels plugin;                *)
(*   SpecCli    the prompt of the cli plugin in GUI mode;                  *)
(*   SpecMqtt   the receive task of the mqtt plugin and its restart;       *)
(*   SpecDev    publishes forwarded to the devices plugin;                 *)
(*   SpecSrv    device events and reported states on the NAS server;       *)
(*   SpecFresh  the panels plugin from its construction on;                *)
(*   SpecInit   the init commands of the plugins that spawn a task;        *)
(*   SpecDisk   the file endpoints on a disk with files outside ./nas;     *)
(*   SpecBounce a file modified on a node of a fleet in sync, and          *)
(*              FairBounce, the same under weak fairness of the watchers;  *)
(*   SpecMirror the NAS state the infos plugin holds of the nas plugin.    *)
(***************************************************************************)
EXTENDS Integers, Sequences, FiniteSets, TLC

VARIABLES
    srvFolder,   \* shared folder of the NAS server: filename -> [content, mtime]
    cliFolder,   \* shared folder of the client
    plan,        \* SpecPlan: the pass in progress
    queue,       \* the mpsc channel of Msg (main.rs: msg_tx / msg_rx)
    pc,          \* the bus consumer task: "select", "await" or "exited"
    handlers,    \* the routines the consumer has dispatched and not yet seen return
    plugins,     \* the state owned by the plugins
    rx,          \* the shutdown broadcast: per receiver, values not yet received
    task,        \* the long-lived tasks: "none", "running" or "exited"
    web,         \* the HTTP server: "running", "stopped" or "lagged"
    proc,        \* the process: "running", "exit0" or "panic"
    now,         \* utils::time::ts()
    script,      \* the lines of the init script
    budget,      \* messages the environment may still send
    loops,       \* the tasks spawned by the nas plugin: loops and re-onboard timers
    hist         \* history of the run, read by the properties only

planVars == <<srvFolder, cliFolder, plan>>

busVars == <<queue, pc, handlers, plugins, rx, task, web, proc, now, script, budget,
             loops, hist>>

vars == <<srvFolder, cliFolder, plan, queue, pc, handlers, plugins, rx, task, web,
          proc, now, script, budget, loops, hist>>

----------------------------------------------------------------------------
(* Bounds of the model.                                                    *)

\* mtimes are counted in ticks; TicksPerSec ticks make one second, so that
\* truncating an mtime to whole seconds is not the identity.
TicksPerSec == 2
\* largest mtime (in ticks) a file starts with
MaxMtime == 2
\* capacity given to the bus channel in the model (MSG_SIZE in main.rs is 4096)
QueueCap == 6
\* longest init script
MaxScriptLen == 2
\* messages sent by the HTTP handlers and the timers together
MaxSends == 1
\* largest value of the clock
MaxTs == 2
\* SpecNas: onboard, offboard and address publications of the NAS server
MaxEvents == 2
\* SpecNas: passes of one reconciliation loop
MaxRounds == 2
\* SpecNas: re-onboard commands sent by the timers
MaxRetries == 1
\* SpecRetry: onboard, offboard and address publications of the NAS server
MaxRetryEvents == 3
\* SpecWeb: requests the HTTP server answers
MaxRequests == 2
\* SpecPush: output_push commands to the panel cmdpanel
MaxPushes == 400
\* SpecPush: output_push commands to the panel side
MaxSidePushes == 1
\* SpecPanels: commands the panels plugin handles
MaxPanelCmds == 2
\* SpecCli: keys and arrow commands the prompt receives
MaxKeys == 5
\* SpecMqtt: seconds the clock advances in one step
MqttStep == 30
\* SpecMqtt: largest value of the clock
MaxMqttTs == 150
\* SpecMqtt: commands sent to the bus from outside
MaxMqttCmds == 3
\* SpecMqtt: poll errors of a run
MaxPollErrors == 1
\* SpecMqtt: longest graceful stop of the HTTP server, in seconds
MaxStopSecs == 30
\* SpecDev: publishes received and commands entered
MaxPublishes == 3
\* SpecDev: largest value of the clock
MaxDevTs == 2
\* SpecSrv: commands the server handles
MaxSrvCmds == 4
\* SpecFresh: commands the panels plugin handles
MaxFreshCmds == 4
\* SpecInit: init commands handled, messages in the queue
MaxInitCmds == 5
MaxInitQueue == 3
\* SpecDisk: requests the HTTP server answers
MaxDiskRequests == 2
\* SpecBounce: files written by a user of the fleet
MaxLocalMods == 2
\* SpecMirror: commands sent to the nas plugin, commands waiting in the channel
MaxMirrorCmds == 4
MaxMirrorQueue == 2
\* SpecCmd: commands in the channel at the start
MaxCmds == 1
\* SpecCmd: POST /check_hash requests handled
MaxChecks == 1
\* SpecList: largest modification time of a file
MaxListMtime == 1
\* SpecMon: filesystem events the watcher reports
MaxFsEvents == 3
\* SpecMon: seconds between two readings of the clock
MonStep == 5
\* SpecMon: the last second of the run
MaxMonTs == 25

----------------------------------------------------------------------------
(* Files and folders.                                                      *)

\* Filenames as FileList::new produces them ("{folder}/{relative path}"),
\* listed in ascending byte order.  "./nas/a" is a path prefix of
\* "./nas/a/b": where one node holds the file ./nas/a the other may hold a
\* directory of that name.
NameSeq == <<"./nas/a", "./nas/a/b", "./nas/c">>

Names == {NameSeq[i] : i \in 1..Len(NameSeq)}

NameIdx(n) == CHOOSE i \in 1..Len(NameSeq) : NameSeq[i] = n

\* the directories a path goes through below the shared folder
ParentDirs(n) == IF n = "./nas/a/b" THEN {"./nas/a"} ELSE {}

\* File contents (byte strings).  "bad1" and "bad2" stand for two different
\* byte strings that are not valid UTF-8 and differ only in their invalid
\* bytes.
Contents == {"x", "bad1", "bad2"}

Mtimes == 0..MaxMtime

Absent == [content |-> "none", mtime |-> 0]

IsFile(F, n) == F[n].content # "none"

\* n is a directory of folder F: some file lies below it
IsDir(F, n) == \E g \in Names : IsFile(F, g) /\ n \in ParentDirs(g)

\* Path::exists
PathExists(F, n) == IsFile(F, n) \/ IsDir(F, n)

\* the folders a filesystem can hold: no path is both a file and a directory
ValidFolder(F) == \A n \in Names : ~(IsFile(F, n) /\ IsDir(F, n))

FileStates == {Absent} \cup [content : Contents, mtime : Mtimes]

Folders == {F \in [Names -> FileStates] : ValidFolder(F)}

----------------------------------------------------------------------------
(* Encodings.  Each is modelled by what it does to the value it is given.   *)

\* String::from_utf8_lossy: every invalid byte becomes U+FFFD
FromUtf8Lossy(c) == IF c \in {"bad1", "bad2"} THEN "fffd" ELSE c

\* SHA-256, hex encoded; taken to be collision free
Sha256(s) == <<"sha256", s>>

hash_str(input) == Sha256(input)

\* base64 STANDARD encode / decode
B64Encode(c) == <<"b64", c>>

B64Decode(e) == e[2]

\* DateTime::<Utc>::from(time).to_rfc3339() / DateTime::parse_from_rfc3339
ToRfc3339(m) == <<"rfc3339", m>>

ParseRfc3339(s) == s[2]

\* FileTime::from_unix_time(mtime.timestamp(), 0): whole seconds only
FileTimeOf(m) == (m \div TicksPerSec) * TicksPerSec

----------------------------------------------------------------------------
(* FileList (nas_info.rs).                                                 *)

FileMetaOf(F, n) ==
    [filename |-> n,
     hash     |-> hash_str(FromUtf8Lossy(F[n].content)),
     mtime    |-> F[n].mtime]

RECURSIVE SortedMetas(_, _)
\* the FileMeta of the files of F among NameSeq[i..], ascending by filename
SortedMetas(F, i) ==
    IF i > Len(NameSeq) THEN <<>>
    ELSE IF IsFile(F, NameSeq[i])
         THEN <<FileMetaOf(F, NameSeq[i])>> \o SortedMetas(F, i + 1)
         ELSE SortedMetas(F, i + 1)

RECURSIVE Serialized(_)
\* "filename1:hash1|filename2:hash2|..."
Serialized(fl) ==
    IF fl = <<>> THEN <<>>
    ELSE IF Len(fl) = 1 THEN <<fl[1].filename, ":", fl[1].hash>>
    ELSE <<fl[1].filename, ":", fl[1].hash, "|">> \o Serialized(Tail(fl))

\* FileList::new
FileListNew(F) ==
    LET fl == SortedMetas(F, 1)
    IN  [file_list |-> fl, hash_str |-> hash_str(Serialized(fl))]

\* FileList::find_by_filename: the index of the entry, 0 when there is none
find_by_filename(list, filename) ==
    IF \E i \in 1..Len(list.file_list) : list.file_list[i].filename = filename
    THEN CHOOSE i \in 1..Len(list.file_list) :
             /\ list.file_list[i].filename = filename
             /\ \A j \in 1..(i - 1) : list.file_list[j].filename # filename
    ELSE 0

GetFile(filename, mtime) == [kind |-> "GetFile", filename |-> filename, mtime |-> mtime]

PutFile(filename, mtime) == [kind |-> "PutFile", filename |-> filename, mtime |-> mtime]

\* the action for one entry of the server list when a client file that is
\* as old as the server's is uploaded
ServerEntryUploadsTies(server_file, client_list) ==
    LET k == find_by_filename(client_list, server_file.filename)
    IN  IF k = 0
        THEN <<GetFile(server_file.filename, server_file.mtime)>>
        ELSE LET client_file == client_list.file_list[k]
             IN  IF client_file.hash # server_file.hash
                    \/ client_file.mtime # server_file.mtime
                 THEN IF client_file.mtime >= server_file.mtime
                      THEN <<PutFile(server_file.filename, client_file.mtime)>>
                      ELSE <<GetFile(server_file.filename, server_file.mtime)>>
                 ELSE <<>>

\* the action for one entry of the server list
ServerEntryAction(server_file, client_list) ==
    LET k == find_by_filename(client_list, server_file.filename)
    IN  IF k = 0
        THEN <<GetFile(server_file.filename, server_file.mtime)>>
        ELSE LET client_file == client_list.file_list[k]
             IN  IF client_file.hash # server_file.hash
                    \/ client_file.mtime # server_file.mtime
                 THEN IF client_file.mtime > server_file.mtime
                      THEN <<PutFile(server_file.filename, client_file.mtime)>>
                      ELSE <<GetFile(server_file.filename, server_file.mtime)>>
                 ELSE <<>>

RECURSIVE ServerPass(_, _, _)
ServerPass(server_list, client_list, i) ==
    IF i > Len(server_list.file_list) THEN <<>>
    ELSE ServerEntryAction(server_list.file_list[i], client_list)
         \o ServerPass(server_list, client_list, i + 1)

RECURSIVE ClientPass(_, _, _)
ClientPass(server_list, client_list, i) ==
    IF i > Len(client_list.file_list) THEN <<>>
    ELSE (IF find_by_filename(server_list, client_list.file_list[i].filename) = 0
          THEN <<PutFile(client_list.file_list[i].filename,
                         client_list.file_list[i].mtime)>>
          ELSE <<>>)
         \o ClientPass(server_list, client_list, i + 1)

compare_and_generate_actions(server_list, client_list) ==
    ServerPass(server_list, client_list, 1) \o ClientPass(server_list, client_list, 1)

----------------------------------------------------------------------------
(* File transfer (nas_info.rs, web.rs, plugin_nas.rs).                     *)

\* fs::create_dir_all(parent) succeeds unless a file stands where a
\* directory is needed
CanCreateParents(F, filename) == \A d \in ParentDirs(filename) : ~IsFile(F, d)

\* the slip: no comparison with the bytes the file holds
WriteFileAlways(F, filename, content, mtime) ==
    IF IsDir(F, filename)
    THEN F
    ELSE IF ~CanCreateParents(F, filename)
    THEN F
    ELSE [F EXCEPT ![filename] =
             [content |-> B64Decode(content),
              mtime   |-> FileTimeOf(ParseRfc3339(mtime))]]

\* nas_info::write_file: the folder afterwards
write_file(F, filename, content, mtime) ==
    IF IsDir(F, filename)
    THEN F                                   \* fs::read of a directory fails
    ELSE IF IsFile(F, filename) /\ B64Encode(F[filename].content) = content
    THEN F                                   \* same content: return Ok(())
    ELSE IF ~CanCreateParents(F, filename)
    THEN F                                   \* create_dir_all fails
    ELSE [F EXCEPT ![filename] =
             [content |-> B64Decode(content),
              mtime   |-> FileTimeOf(ParseRfc3339(mtime))]]

\* POST /verify_hash on folder F (web.rs): 0 when the file is there with
\* the same hash
verify_hash(F, filename, h) ==
    IF IsFile(F, filename) /\ CanCreateParents(F, filename)
       /\ h = hash_str(FromUtf8Lossy(F[filename].content))
    THEN 0 ELSE 1

\* POST /upload on folder F (web.rs)
upload(F, filename, content, mtime) == write_file(F, filename, content, mtime)

\* plugin_nas::put_file from folder Local to the remote folder Remote:
\* the remote folder afterwards (the plan names files of the local list,
\* so the path read is a file or is gone)
put_file(Local, Remote, filename) ==
    IF ~IsFile(Local, filename)
    THEN Remote                              \* "PUT failed. Fild not found."
    ELSE LET bytes == Local[filename].content
             h     == hash_str(FromUtf8Lossy(bytes))
         IN  IF verify_hash(Remote, filename, h) = 0
             THEN Remote                     \* "ignored. Same."
             ELSE upload(Remote, filename, B64Encode(bytes),
                         ToRfc3339(Local[filename].mtime))

\* the GetFile arm of the reconciliation loop: POST /download on the server
\* folder, then write_file on the client folder; the client folder afterwards
get_file(Server, Client, filename) ==
    IF ~IsFile(Server, filename)
    THEN Client                              \* 404 (the plan names files of the server list)
    ELSE write_file(Client, filename, B64Encode(Server[filename].content),
                    ToRfc3339(Server[filename].mtime))

----------------------------------------------------------------------------
(* SpecPlan: one pass of the reconciliation loop over two folders.         *)

PlanIdle == [pc |-> "check", actions |-> <<>>, i |-> 0, rounds |-> 0]

InitPlan ==
    /\ srvFolder \in Folders
    /\ cliFolder \in Folders
    /\ plan = PlanIdle
    /\ queue = <<>> /\ pc = "idle" /\ handlers = <<>> /\ plugins = <<>>
    /\ rx = <<>> /\ task = <<>> /\ web = "idle" /\ proc = "idle" /\ now = 0
    /\ script = [found |-> FALSE, lines |-> <<>>] /\ budget = 0 /\ hist = <<>>
    /\ loops = <<>>

\* FileList::new, POST /check_hash and, on a mismatch, the plan
PlanCheckHash ==
    /\ plan.pc = "check"
    /\ plan.rounds = 0
    /\ LET file_list == FileListNew(cliFolder)
           file_list_server == FileListNew(srvFolder)
       IN  IF file_list.hash_str = file_list_server.hash_str
           THEN plan' = [plan EXCEPT !.pc = "synced"]
           ELSE plan' = [plan EXCEPT !.pc = "exec", !.i = 1,
                           !.actions = compare_and_generate_actions(file_list_server, file_list)]
    /\ UNCHANGED <<srvFolder, cliFolder>>
    /\ UNCHANGED busVars

\* the next action of the plan
PlanExecAction ==
    /\ plan.pc = "exec"
    /\ plan.i <= Len(plan.actions)
    /\ LET action == plan.actions[plan.i]
       IN  IF action.kind = "GetFile"
           THEN /\ cliFolder' = get_file(srvFolder, cliFolder, action.filename)
                /\ UNCHANGED srvFolder
           ELSE /\ srvFolder' = put_file(cliFolder, srvFolder, action.filename)
                /\ UNCHANGED cliFolder
    /\ plan' = [plan EXCEPT !.i = @ + 1]
    /\ UNCHANGED busVars

\* the plan is exhausted: back to the head of the loop
PlanFinish ==
    /\ plan.pc = "exec"
    /\ plan.i > Len(plan.actions)
    /\ plan' = [plan EXCEPT !.pc = "applied", !.rounds = @ + 1]
    /\ UNCHANGED <<srvFolder, cliFolder>>
    /\ UNCHANGED busVars

NextPlan == PlanCheckHash \/ PlanExecAction \/ PlanFinish

SpecPlan == InitPlan /\ [][NextPlan]_vars

----------------------------------------------------------------------------
(* SpecList: FileList::new and compare_and_generate_actions over folders   *)
(* whose filenames are character strings.  A run of characters that holds  *)
(* no ':' and no '|' is written as one element; "H_x" is the hex text of   *)
(* the SHA-256 of content "x".                                             *)

\* hex::encode(digest) in hash_str: the digest as text
HexOf(digest) == "H_" \o digest[2]

\* "./nas/a", "./nas/b" and the file b below the directories
\* "a:<hex of the hash of x>|." and "nas": "./nas/a:H_x|./nas/b"
ListNames ==
    { <<"./nas/", "a">>,
      <<"./nas/", "b">>,
      <<"./nas/", "a", ":", "H_x", "|", "./nas/", "b">> }

ListContents == {"x", "y"}

ListFolders == [ListNames -> {Absent} \cup [content : ListContents, mtime : 0..MaxListMtime]]

\* the place of a character in byte order ('.' < digits < ':' < letters < '|')
CharRank(c) ==
    CASE c = "./nas/" -> 1
      [] c = "H_x" -> 2
      [] c = "H_y" -> 3
      [] c = ":" -> 4
      [] c = "a" -> 5
      [] c = "b" -> 6
      [] OTHER -> 7

RECURSIVE LessStr(_, _, _)
\* a.cmp(b) == Less for strings a and b equal before index i
LessStr(a, b, i) ==
    IF i > Len(b) THEN FALSE
    ELSE IF i > Len(a) THEN TRUE
    ELSE IF a[i] = b[i] THEN LessStr(a, b, i + 1)
    ELSE CharRank(a[i]) < CharRank(b[i])

\* the orders in which WalkDir can yield the files of folder F
Walks(F) ==
    LET files == {n \in DOMAIN F : IsFile(F, n)}
        k == Cardinality(files)
    IN  { [i \in 1..k |-> FileMetaOf(F, order[i])] :
            order \in {o \in [1..k -> files] : \A i, j \in 1..k : i # j => o[i] # o[j]} }

RECURSIVE SortByFilename(_)
\* file_list.sort_by(|a, b| a.filename.cmp(&b.filename)): a stable sort
SortByFilename(fl) ==
    IF fl = <<>> THEN <<>>
    ELSE LET sorted == SortByFilename(SubSeq(fl, 1, Len(fl) - 1))
             f == fl[Len(fl)]
             k == Cardinality({i \in 1..Len(sorted) :
                                 ~LessStr(f.filename, sorted[i].filename, 1)})
         IN  SubSeq(sorted, 1, k) \o <<f>> \o SubSeq(sorted, k + 1, Len(sorted))

RECURSIVE SerializedStr(_)
\* format!("{}:{}", f.filename, f.hash) joined with "|", as characters
SerializedStr(fl) ==
    IF fl = <<>> THEN <<>>
    ELSE fl[1].filename \o <<":", HexOf(fl[1].hash)>>
         \o (IF Len(fl) = 1 THEN <<>> ELSE <<"|">> \o SerializedStr(Tail(fl)))

\* FileList::new from the entries in walk order
FileListOfWalk(walk) ==
    LET fl == SortByFilename(walk)
    IN  [file_list |-> fl, hash_str |-> hash_str(SerializedStr(fl))]

InitList ==
    /\ srvFolder \in ListFolders
    /\ cliFolder \in ListFolders
    /\ plan = [pc |-> "folders", server_list |-> <<>>, client_list |-> <<>>,
               actions |-> <<>>]
    /\ queue = <<>> /\ pc = "idle" /\ handlers = <<>> /\ plugins = <<>>
    /\ rx = <<>> /\ task = <<>> /\ web = "idle" /\ proc = "idle" /\ now = 0
    /\ script = [found |-> FALSE, lines |-> <<>>] /\ budget = 0 /\ hist = <<>>
    /\ loops = <<>>

\* FileList::new on both folders
ListNew ==
    /\ plan.pc = "folders"
    /\ \E ws \in Walks(srvFolder), wc \in Walks(cliFolder) :
          plan' = [plan EXCEPT !.pc = "listed",
                               !.server_list = FileListOfWalk(ws),
                               !.client_list = FileListOfWalk(wc)]
    /\ UNCHANGED <<srvFolder, cliFolder>>
    /\ UNCHANGED busVars

\* compare_and_generate_actions on the two lists
ListCompare ==
    /\ plan.pc = "listed"
    /\ plan' = [plan EXCEPT !.pc = "compared",
                            !.actions = compare_and_generate_actions(plan.server_list,
                                                                     plan.client_list)]
    /\ UNCHANGED <<srvFolder, cliFolder>>
    /\ UNCHANGED busVars

NextList == ListNew \/ ListCompare

SpecList == InitList /\ [][NextList]_vars

----------------------------------------------------------------------------
(* Text.  A string is a sequence of characters; a run of characters that    *)
(* holds no blank, no '#' and no quote is written as one element ("exit",   *)
(* "[web]"), so that a keyword is one element.                              *)

IsBlank(c) == c = " "

\* the grave accent, an ordinary character to both splitters
Backtick == "bq"

RECURSIVE IndexOf(_, _, _)
\* the first index >= i of character c in s, 0 when there is none
IndexOf(s, c, i) ==
    IF i > Len(s) THEN 0 ELSE IF s[i] = c THEN i ELSE IndexOf(s, c, i + 1)

RECURSIVE trim_end(_)
trim_end(s) ==
    IF s # <<>> /\ IsBlank(s[Len(s)]) THEN trim_end(SubSeq(s, 1, Len(s) - 1)) ELSE s

\* the command with its comment left in
KeepComment(cmd) == cmd

\* cmd.split_once('#').map(|(before, _)| before.trim_end()).unwrap_or(cmd)
StripComment(cmd) ==
    LET i == IndexOf(cmd, "#", 1)
    IN  IF i = 0 THEN cmd ELSE trim_end(SubSeq(cmd, 1, i - 1))

RECURSIVE SplitWs(_, _, _, _)
SplitWs(s, i, word, parts) ==
    IF i > Len(s)
    THEN IF word = <<>> THEN parts ELSE Append(parts, word)
    ELSE IF IsBlank(s[i])
         THEN SplitWs(s, i + 1, <<>>, IF word = <<>> THEN parts ELSE Append(parts, word))
         ELSE SplitWs(s, i + 1, Append(word, s[i]), parts)

\* str::split_whitespace
split_whitespace(s) == SplitWs(s, 1, <<>>, <<>>)

RECURSIVE ShellSplit(_, _, _, _, _)
\* the scanner of shell_words::split over blanks, single quotes, '#' and
\* ordinary characters
ShellSplit(s, i, st, word, parts) ==
    IF i > Len(s)
    THEN CASE st \in {"Delimiter", "Comment"} -> [ok |-> TRUE, parts |-> parts]
           [] st = "Unquoted" -> [ok |-> TRUE, parts |-> Append(parts, word)]
           [] OTHER -> [ok |-> FALSE, parts |-> <<>>]     \* ParseError
    ELSE LET c == s[i]
         IN  CASE st = "Delimiter" ->
                    IF c = "'" THEN ShellSplit(s, i + 1, "SingleQuoted", <<>>, parts)
                    ELSE IF IsBlank(c) THEN ShellSplit(s, i + 1, "Delimiter", <<>>, parts)
                    ELSE IF c = "#" THEN ShellSplit(s, i + 1, "Comment", <<>>, parts)
                    ELSE ShellSplit(s, i + 1, "Unquoted", <<c>>, parts)
               [] st = "Unquoted" ->
                    IF c = "'" THEN ShellSplit(s, i + 1, "SingleQuoted", word, parts)
                    ELSE IF IsBlank(c)
                         THEN ShellSplit(s, i + 1, "Delimiter", <<>>, Append(parts, word))
                    ELSE ShellSplit(s, i + 1, "Unquoted", Append(word, c), parts)
               [] st = "SingleQuoted" ->
                    IF c = "'" THEN ShellSplit(s, i + 1, "Unquoted", word, parts)
                    ELSE ShellSplit(s, i + 1, "SingleQuoted", Append(word, c), parts)
               [] OTHER -> ShellSplit(s, i + 1, "Comment", word, parts)

\* shell_words::split(&cmd.cmd)
shell_split(s) == ShellSplit(s, 1, "Delimiter", <<>>, <<>>)

\* utils::time::ts_str
ts_str(ts) == ToString(ts)

\* utils::time::uptime_str for an uptime below ten seconds: "0d 00:00:0s"
uptime_str(uptime) == <<"0d", " ", "00:00:0" \o ToString(uptime)>>

----------------------------------------------------------------------------
(* Messages (messages.rs).                                                 *)

LogMsg(ts, module, level, text) ==
    [ts |-> ts, module |-> module,
     data |-> [kind |-> "Log", level |-> level, msg |-> text, cmd |-> <<>>]]

CmdMsg(ts, module, cmd) ==
    [ts |-> ts, module |-> module,
     data |-> [kind |-> "Cmd", level |-> "", msg |-> <<>>, cmd |-> cmd]]

\* A queued message together with its history: who sent it, as which of
\* its sends, as which entry of the queue, and for a command re-emitted
\* from a Log, that Log.
NoOrigin == [kind |-> "none"]

Entry(m, src, n, origin) == [msg |-> m, src |-> src, n |-> n, eid |-> 0, origin |-> origin]

\* the entries of the messages ms sent by src, the first being its send n
\* (0: the sends are not numbered)
Entries(ms, src, n, origin) ==
    [k \in 1..Len(ms) |-> Entry(ms[k], src, IF n = 0 THEN 0 ELSE n + k - 1, origin)]

\* the detached tasks of the model: the system publisher, the weather
\* poller, the key reader and the sub-title refresher of the cli plugin
Tasks == {"system", "weather", "keys", "sub_title"}

ProducerIds == {"main", "router", "web", "devices", "loop", "retry"} \cup Tasks

Receivers == {"consumer", "web"} \cup Tasks

\* capacity of the shutdown broadcast channel
SHUTDOWN_CAP == 1

----------------------------------------------------------------------------
(* Plugins (src/plugins).  A handler is a function of the plugin state    *)
(* and the message: the state afterwards, the messages it sends in order,  *)
(* the tasks it spawns.                                                    *)

InitPlugins ==
    [log_gui_panel    |-> <<>>,
     scripts_filename |-> <<>>,
     weather_inited   |-> FALSE,
     weather_cities   |-> <<>>,
     cli_started      |-> FALSE,
     cli_mode         |-> "ModeGui",
     cli_gui_panel    |-> <<>>,
     cli_output       |-> <<>>,
     nas_inited       |-> FALSE,
     nas_server       |-> <<>>,
     nas_state        |-> "Unsync",
     nas_infos        |-> <<>>]

NoLog == [kind |-> "none"]

Result(kind, plugin, st, out, spawn, logged) ==
    [kind |-> kind, plugin |-> plugin, st |-> st, out |-> out, spawn |-> spawn,
     logged |-> logged, nas_tasks |-> <<>>, rpcs |-> <<>>]

\* the plugins of Plugins::new, in construction order
PluginNames ==
    <<"log", "scripts", "cli", "system", "panels", "mqtt", "devices", "infos",
      "nas", "monitor", "weather", "music">>

Registered(name) == \E i \in 1..Len(PluginNames) : name = <<PluginNames[i]>>

UnknownAction(module, level, action, cmd) ==
    LogMsg(now, module, level,
           <<"[" \o module \o "]", " ", "Unknown", " ", "action", " ", "(">> \o action
           \o <<")", " ", "for", " ", "cmd", " ", Backtick>> \o cmd \o <<Backtick, ".">>)

MissingAction(module, level, cmd) ==
    LogMsg(now, module, level,
           <<"[" \o module \o "]", " ", "Missing", " ", "action", " ", "for", " ", "cmd",
             " ", Backtick>> \o cmd \o <<Backtick, ".">>)

\* plugin_log::PluginUnit::handle_cmd
log_handle_cmd(st, m, parts) ==
    LET cmd == m.data.cmd
    IN  IF Len(parts) < 3
        THEN Result("plugin", "log", st, <<MissingAction("log", "WARN", cmd)>>, {}, NoLog)
        ELSE CASE parts[3] = <<"log">> ->
                    IF Len(parts) >= 5
                    THEN Result("plugin", "log", st,
                           IF st.log_gui_panel = <<>>
                           THEN <<>>                              \* println!
                           ELSE <<CmdMsg(now, "log",
                                    <<"p", " ", "panels", " ", "output_push", " ">>
                                    \o st.log_gui_panel
                                    \o <<" ", "'", ts_str(m.ts), " ", "[">> \o parts[4]
                                    \o <<"]", " ">> \o parts[5] \o <<"'">>)>>,
                           {},
                           [kind |-> "log", ts |-> m.ts, module |-> m.module,
                            level |-> parts[4], text |-> parts[5]])
                    ELSE Result("plugin", "log", st,
                           <<LogMsg(now, "log", "WARN",
                               <<"[log]", " ", "Missing", " ", "level/msg", " ", "for", " ",
                                 "cmd", " ", Backtick>> \o cmd \o <<Backtick, ".">>)>>, {}, NoLog)
               [] parts[3] = <<"gui">> ->
                    Result("plugin", "log",
                           IF Len(parts) >= 4
                           THEN [st EXCEPT !.log_gui_panel = parts[4]] ELSE st,
                           <<>>, {}, NoLog)
               [] parts[3] = <<"arrow">> -> Result("plugin", "log", st, <<>>, {}, NoLog)
               [] OTHER ->
                    Result("plugin", "log", st,
                           <<UnknownAction("log", "WARN", parts[3], cmd)>>, {}, NoLog)

\* the lines of the script as commands, then the log line
ScriptCmds(lines) == [k \in 1..Len(lines) |-> CmdMsg(now, "scripts", lines[k])]

\* the init script: the lines of the file, or no file
ScriptFile(lines) == [found |-> TRUE, lines |-> lines]

NoScript == [found |-> FALSE, lines |-> <<>>]

\* plugin_scripts::PluginUnit::handle_cmd
scripts_handle_cmd(st, m, parts) ==
    LET cmd == m.data.cmd
    IN  IF Len(parts) < 3
        THEN Result("plugin", "scripts", st, <<MissingAction("scripts", "WARN", cmd)>>,
                    {}, NoLog)
        ELSE CASE parts[3] = <<"init">> ->
                    IF Len(parts) >= 4
                    THEN Result("plugin", "scripts",
                           [st EXCEPT !.scripts_filename = parts[4]],
                           IF script.found
                           THEN ScriptCmds(script.lines)
                                \o <<LogMsg(now, "scripts", "INFO",
                                       <<"[scripts]", " ", "init", " ", "script", " ", "(", Backtick>>
                                       \o parts[4] \o <<Backtick, ")">>)>>
                           ELSE <<LogMsg(now, "scripts", "WARN",
                                       <<"[scripts]", " ", "init", " ", "script", " ", "(", Backtick>>
                                       \o parts[4] \o <<Backtick, ")", " ", "not", " ", "found!">>)>>,
                           {}, NoLog)
                    ELSE Result("plugin", "scripts", st, <<>>, {}, NoLog)
               [] parts[3] = <<"show">> ->
                    Result("plugin", "scripts", st,
                           IF st.scripts_filename = <<>> THEN <<>>
                           ELSE IF script.found
                           THEN [k \in 1..Len(script.lines) |->
                                   LogMsg(now, "scripts", "INFO",
                                          <<"[scripts]", " ">> \o script.lines[k])]
                           ELSE <<LogMsg(now, "scripts", "WARN",
                                       <<"[scripts]", " ", "init", " ", "script", " ", "(", Backtick>>
                                       \o st.scripts_filename
                                       \o <<Backtick, ")", " ", "not", " ", "found!">>)>>,
                           {}, NoLog)
               [] OTHER ->
                    Result("plugin", "scripts", st,
                           <<UnknownAction("scripts", "WARN", parts[3], cmd)>>, {}, NoLog)

\* plugin_system.rs VERSION
VERSION == "3.0.6"

\* "p mqtt publish false <key> '<payload>'"
MqttPublishCmd(key, payload) ==
    CmdMsg(now, "system",
           <<"p", " ", "mqtt", " ", "publish", " ", "false", " ", key, " ", "'", payload, "'">>)

\* the readings of a node with no tailscale address and no cpu sensor
\* (get_tailscale_ip: None, get_temperature: 0.0); the uptime of the
\* application is the time since start-up
SystemInfoLog(words) == LogMsg(now, "system", "INFO", <<"[system]", " ">> \o words)

\* plugin_system::PluginUnit::handle_cmd (show: handle_cmd_show, publish:
\* update_system)
system_handle_cmd(st, m, parts) ==
    LET cmd == m.data.cmd
        uptime == ToString(now - 1)
    IN  IF Len(parts) < 3
        THEN Result("plugin", "system", st, <<MissingAction("system", "INFO", cmd)>>,
                    {}, NoLog)
        ELSE CASE parts[3] = <<"show">> ->
                    Result("plugin", "system", st,
                           <<SystemInfoLog(<<"Version:", " ", "v" \o VERSION>>),
                             SystemInfoLog(<<"Tailscale", " ", "IP:", " ", "n/a">>),
                             SystemInfoLog(<<"Temperature:", " ", "0.0C">>),
                             SystemInfoLog(<<"App", " ", "uptime:", " ">>
                                           \o uptime_str(now - 1))>>,
                           {}, NoLog)
               [] parts[3] = <<"publish">> ->
                    Result("plugin", "system", st,
                           <<MqttPublishCmd("onboard", "1"),
                             MqttPublishCmd("version", VERSION),
                             MqttPublishCmd("tailscale_ip", "n/a"),
                             MqttPublishCmd("temperature", "0"),
                             MqttPublishCmd("app_uptime", uptime)>>, {}, NoLog)
               [] OTHER ->
                    Result("plugin", "system", st,
                           <<UnknownAction("system", "INFO", parts[3], cmd)>>, {}, NoLog)

\* the words str::parse reads as a number
IsNumber(word) == word \in {<<"0">>, <<"1">>, <<"2">>}

HasCity(st, name) == \E k \in 1..Len(st.weather_cities) : st.weather_cities[k] = name

\* handle_cmd_add: a new city is pushed once its coordinates have parsed
\* (parse::<f32>().unwrap())
weather_handle_cmd_add(st, parts) ==
    IF Len(parts) < 6 THEN Result("plugin", "weather", st, <<>>, {}, NoLog)
    ELSE LET name == parts[4]
             info == LogMsg(now, "weather", "INFO",
                            <<"[weather]", " ", "Add:", " ">> \o name \o <<" ">>
                            \o parts[5] \o <<" ">> \o parts[6])
         IN  IF HasCity(st, name)
             THEN Result("plugin", "weather", st, <<info>>, {}, NoLog)
             ELSE IF ~(IsNumber(parts[5]) /\ IsNumber(parts[6]))
             THEN Result("panic", "weather", st, <<>>, {}, NoLog)
             ELSE Result("plugin", "weather",
                         [st EXCEPT !.weather_cities = Append(@, name)],
                         <<CmdMsg(now, "weather",
                             <<"p", " ", "infos", " ", "weather", " ", "add", " ">>
                             \o name \o <<" ">> \o parts[5] \o <<" ">> \o parts[6]),
                           info>>, {}, NoLog)

\* handle_cmd_update_item: the readings of a known city are parsed
\* (unwrap) and stored; the readings are no state of the model
weather_handle_cmd_update_item(st, parts) ==
    LET fields == IF Len(parts) < 4 THEN 0
                  ELSE IF parts[4] = <<"summary">> THEN 8
                  ELSE IF parts[4] = <<"daily">> THEN 11 ELSE 0
        parsed == IF parts[4] = <<"summary">> THEN {7, 8} ELSE {6, 8, 9, 10, 11}
    IN  IF fields = 0 \/ Len(parts) < fields \/ ~HasCity(st, parts[5])
        THEN Result("plugin", "weather", st, <<>>, {}, NoLog)
        ELSE IF \A k \in parsed : IsNumber(parts[k])
        THEN Result("plugin", "weather", st, <<>>, {}, NoLog)
        ELSE Result("panic", "weather", st, <<>>, {}, NoLog)

\* plugin_weather::PluginUnit::handle_cmd: init (handle_cmd_init), show,
\* update (handle_cmd_update: the fetches are made by a detached task),
\* update_item and add
weather_handle_cmd(st, m, parts) ==
    LET cmd == m.data.cmd
    IN  IF Len(parts) < 3
        THEN Result("plugin", "weather", st, <<MissingAction("weather", "WARN", cmd)>>,
                    {}, NoLog)
        ELSE CASE parts[3] = <<"init">> ->
                    IF st.weather_inited
                    THEN Result("plugin", "weather", st, <<>>, {}, NoLog)
                    ELSE Result("plugin", "weather",
                           [st EXCEPT !.weather_inited = TRUE],
                           <<CmdMsg(now, "weather", <<"p", " ", "weather", " ", "update">>),
                             LogMsg(now, "weather", "INFO", <<"[weather]", " ", "init">>)>>,
                           {"weather"}, NoLog)
               [] parts[3] = <<"show">> ->
                    Result("plugin", "weather", st,
                           <<LogMsg(now, "weather", "INFO",
                               <<"[weather]", " ", "Inited:", " ",
                                 IF st.weather_inited THEN "true" ELSE "false">>),
                             LogMsg(now, "weather", "INFO", <<"Name", " ", "Temp">>)>>
                           \o [k \in 1..Len(st.weather_cities) |->
                                 LogMsg(now, "weather", "INFO",
                                        st.weather_cities[k] \o <<" ", "n/a">>)],
                           {}, NoLog)
               [] parts[3] = <<"update">> ->
                    Result("plugin", "weather", st, <<>>, {}, NoLog)
               [] parts[3] = <<"update_item">> -> weather_handle_cmd_update_item(st, parts)
               [] parts[3] = <<"add">> -> weather_handle_cmd_add(st, parts)
               [] OTHER ->
                    Result("plugin", "weather", st,
                           <<UnknownAction("weather", "WARN", parts[3], cmd)>>, {}, NoLog)

\* panel::output_update_gui_simple: "p panels output_update <panel> '<output>'"
output_update_gui_simple(gui_panel, output) ==
    CmdMsg(now, "cli",
           <<"p", " ", "panels", " ", "output_update", " ">> \o gui_panel
           \o <<" ", "'">> \o output \o <<"'">>)

\* plugin_cli::PluginUnit::handle_cmd: init gui and arrow (with no history
\* entered, up and down leave the prompt as it is and redraw it)
cli_handle_cmd(st, m, parts) ==
    LET cmd == m.data.cmd
    IN  IF Len(parts) < 4
        THEN Result("plugin", "cli", st, <<MissingAction("cli", "WARN", cmd)>>, {}, NoLog)
        ELSE CASE parts[3] = <<"init">> /\ parts[4] = <<"gui">> ->
                    IF st.cli_started /\ st.cli_mode = "ModeGui"
                    THEN Result("plugin", "cli", st,
                           <<LogMsg(now, "cli", "WARN",
                               <<"[cli]", " ", "Started", " ", "and", " ", "GUI", " ", "mode",
                                 " ", "already.", " ", "Ignore.">>)>>, {}, NoLog)
                    ELSE IF Len(parts) >= 5
                    THEN Result("plugin", "cli",
                           [st EXCEPT !.cli_started = TRUE, !.cli_mode = "ModeGui",
                                      !.cli_gui_panel = parts[5]],
                           <<output_update_gui_simple(parts[5], <<">", " ">>),
                             LogMsg(now, "cli", "INFO",
                               <<"[cli]", " ", "init", " ", "gui", " ", "mode", " ", "(panel:",
                                 " ", Backtick>> \o parts[5] \o <<Backtick, ")">>)>>,
                           {"keys", "sub_title"}, NoLog)
                    ELSE Result("plugin", "cli", st, <<>>, {}, NoLog)
               \* the line reader spawned here finds its input at end of file
               [] parts[3] = <<"init">> /\ parts[4] = <<"cli">> ->
                    IF st.cli_started /\ st.cli_mode = "ModeCli"
                    THEN Result("plugin", "cli", st,
                           <<LogMsg(now, "cli", "WARN",
                               <<"[cli]", " ", "Started", " ", "and", " ", "CLI", " ", "mode",
                                 " ", "already.", " ", "Ignore.">>)>>, {}, NoLog)
                    ELSE Result("plugin", "cli",
                           [st EXCEPT !.cli_started = TRUE, !.cli_mode = "ModeCli"],
                           <<LogMsg(now, "cli", "INFO",
                               <<"[cli]", " ", "init", " ", "cli", " ", "mode">>)>>,
                           {}, NoLog)
               [] parts[3] = <<"init">> /\ parts[4] \notin {<<"gui">>, <<"cli">>} ->
                    Result("plugin", "cli", st,
                           <<LogMsg(now, "cli", "WARN",
                               <<"[cli]", " ", "Unknown", " ", "mode", " ", "(">> \o parts[4]
                               \o <<")", " ", "for", " ", "cmd", " ", Backtick>> \o cmd
                               \o <<Backtick, ".">>)>>, {}, NoLog)
               [] parts[3] = <<"arrow">> ->
                    IF parts[4] \in {<<"up">>, <<"down">>}
                    THEN Result("plugin", "cli", st,
                           <<output_update_gui_simple(st.cli_gui_panel,
                                                      <<">", " ">> \o st.cli_output)>>,
                           {}, NoLog)
                    ELSE Result("plugin", "cli", st, <<>>, {}, NoLog)
               [] OTHER ->
                    Result("plugin", "cli", st,
                           <<UnknownAction("cli", "WARN", parts[3], cmd)>>, {}, NoLog)

\* the name of this node (cfg::name())
CfgName == <<"cli1">>

\* the value of the action word of "p nas <action> Synced|Syncing"
ACTION_SELF_NAS_STATE == "self_nas_state"

\* the index of the NasInfo of name, 0 when there is none
FindNasInfo(nas_infos, name) ==
    IF \E i \in 1..Len(nas_infos) : nas_infos[i].name = name
    THEN CHOOSE i \in 1..Len(nas_infos) : nas_infos[i].name = name
    ELSE 0

\* get_nas_server_ip: <<>> is None
get_nas_server_ip(st) ==
    LET i == FindNasInfo(st.nas_infos, st.nas_server)
    IN  IF i = 0 THEN <<>> ELSE st.nas_infos[i].tailscale_ip

\* "p infos nas <words>": the commands the nas plugin sends to its panel
NasInfosCmd(words) == CmdMsg(now, "nas", <<"p", " ", "infos", " ", "nas", " ">> \o words)

\* update_infos_client_nas_state
update_infos_client_nas_state(nas_state) == NasInfosCmd(<<"nas_state", " ", nas_state>>)

\* a reconciliation loop at its head, and a re-onboard timer at its start
NewLoop(ip) ==
    [kind |-> "loop", pc |-> "start", ip |-> ip, list |-> <<>>, server_list |-> <<>>,
     result |-> 0, actions |-> <<>>, i |-> 0, rounds |-> 0]

\* seconds the re-onboard timer sleeps
WAITING_FOR_NAS_SERVER_IP_DELAY == 3

NewRetry == [kind |-> "retry", pc |-> "log"]

NasResult(st, out, nas_tasks) ==
    [Result("plugin", "nas", st, out, {}, NoLog) EXCEPT !.nas_tasks = nas_tasks]

NasPanic(st) == Result("panic", "nas", st, <<>>, {}, NoLog)       \* todo!()

\* the slip: the event is dropped while the address is unknown
UnsyncOnboardDropsEvent(st, sent) ==
    IF get_nas_server_ip(st) = <<>>
    THEN NasResult(st, sent, <<>>)
    ELSE NasResult(st, sent, <<NewLoop(get_nas_server_ip(st))>>)

\* handle_nas_event_client_in_state_unsync_onboard: the re-onboard timer
\* while the address of the server is unknown, else the loop
handle_nas_event_client_in_state_unsync_onboard(st, sent) ==
    IF get_nas_server_ip(st) = <<>>
    THEN NasResult(st, sent, <<NewRetry>>)
    ELSE NasResult(st, sent, <<NewLoop(get_nas_server_ip(st))>>)

\* a client that takes itself for Synced as soon as the server reports
OnboardMeansSynced(st, sent, name, onboard) ==
    IF name # st.nas_server THEN NasResult(st, sent, <<>>)
    ELSE IF onboard
    THEN NasResult([st EXCEPT !.nas_state = "Synced"],
                   Append(sent, update_infos_client_nas_state("Synced")), <<>>)
    ELSE NasResult([st EXCEPT !.nas_state = "Unsync"],
                   Append(sent, update_infos_client_nas_state("Unsync")), <<>>)

\* handle_nas_event on a client (nas_server is another node):
\* handle_nas_event_client and the handlers of its states, after the two
\* commands handle_cmd_devices has sent
handle_nas_event_client(st, sent, name, onboard) ==
    IF name # st.nas_server THEN NasResult(st, sent, <<>>)
    ELSE CASE st.nas_state = "Unsync" ->
                IF onboard
                THEN handle_nas_event_client_in_state_unsync_onboard(st, sent)
                ELSE NasResult(st, sent, <<>>)                    \* keep unsync
           [] st.nas_state = "Synced" ->
                IF onboard
                THEN NasResult(st, sent, <<>>)                    \* keep sync
                ELSE NasResult([st EXCEPT !.nas_state = "Unsync"],
                               Append(sent, update_infos_client_nas_state("Unsync")),
                               <<>>)
           [] OTHER -> NasPanic(st)

\* a server on which a client that was Synced stays Synced when it goes
OffboardKeepsSynced(st, sent, name, onboard) ==
    LET i == FindNasInfo(st.nas_infos, name)
    IN  IF name = st.nas_server \/ i = 0 THEN NasResult(st, sent, <<>>)
        ELSE LET nas_state == IF ~onboard /\ st.nas_infos[i].nas_state = "Syncing"
                              THEN "Unsync" ELSE st.nas_infos[i].nas_state
             IN  NasResult([st EXCEPT !.nas_infos[i].nas_state = nas_state],
                           Append(sent, NasInfosCmd(<<"nas_state", " ">> \o name
                                                    \o <<" ", nas_state>>)),
                           <<>>)

\* handle_nas_event on the server (nas_server is this node): the event of a
\* client that has a NasInfo is matched against its recorded state; an
\* Offboard event of a client that was Syncing or Synced makes it Unsync,
\* the other arms keep the state, a state the match does not name is todo!()
handle_nas_event_server(st, sent, name, onboard) ==
    LET i == FindNasInfo(st.nas_infos, name)
    IN  IF name = st.nas_server \/ i = 0 THEN NasResult(st, sent, <<>>)
        ELSE IF st.nas_infos[i].nas_state \notin {"Unsync", "Syncing", "Synced"}
        THEN NasPanic(st)
        ELSE LET nas_state == IF st.nas_infos[i].nas_state = "Unsync" \/ onboard
                              THEN st.nas_infos[i].nas_state
                              ELSE "Unsync"
             IN  NasResult([st EXCEPT !.nas_infos[i].nas_state = nas_state],
                           Append(sent, NasInfosCmd(<<"nas_state", " ">> \o name
                                                    \o <<" ", nas_state>>)),
                           <<>>)

\* handle_cmd_devices
handle_cmd_devices(st, parts) ==
    IF Len(parts) < 4 THEN NasResult(st, <<>>, <<>>)
    ELSE CASE parts[4] = <<"onboard">> ->
                IF Len(parts) < 6 THEN NasResult(st, <<>>, <<>>)
                ELSE LET name == parts[5]
                         onboard == parts[6] = <<"1">>
                         i == FindNasInfo(st.nas_infos, name)
                         infos == IF i # 0
                                  THEN [st.nas_infos EXCEPT ![i].onboard = onboard]
                                  ELSE Append(st.nas_infos,
                                              [name |-> name, onboard |-> onboard,
                                               nas_state |-> "Unsync",
                                               tailscale_ip |-> <<>>])
                         st1 == [st EXCEPT !.nas_infos = infos]
                         sent == <<NasInfosCmd(<<"onboard", " ">> \o name \o <<" ">>
                                               \o parts[6]),
                                   update_infos_client_nas_state(st.nas_state)>>
                     IN  IF st.nas_server = CfgName
                         THEN handle_nas_event_server(st1, sent, name, onboard)
                         ELSE handle_nas_event_client(st1, sent, name, onboard)
           [] parts[4] = <<"tailscale_ip">> ->
                IF Len(parts) < 6 THEN NasResult(st, <<>>, <<>>)
                ELSE LET i == FindNasInfo(st.nas_infos, parts[5])
                     IN  IF i = 0 THEN NasResult(st, <<>>, <<>>)
                         ELSE NasResult([st EXCEPT !.nas_infos[i].tailscale_ip = parts[6]],
                                        <<>>, <<>>)
           [] OTHER -> NasResult(st, <<>>, <<>>)

\* handle_cmd_self_nas_state
handle_cmd_self_nas_state(st, parts) ==
    IF Len(parts) < 4 THEN NasResult(st, <<>>, <<>>)
    ELSE CASE parts[4] = <<"Synced">> ->
                NasResult([st EXCEPT !.nas_state = "Synced"],
                          <<update_infos_client_nas_state("Synced")>>, <<>>)
           [] parts[4] = <<"Syncing">> ->
                NasResult([st EXCEPT !.nas_state = "Syncing"],
                          <<update_infos_client_nas_state("Syncing")>>, <<>>)
           [] OTHER -> NasPanic(st)

\* handle_cmd_init
nas_handle_cmd_init(st, parts) ==
    IF st.nas_inited THEN NasResult(st, <<>>, <<>>)
    ELSE IF Len(parts) >= 4
    THEN NasResult([st EXCEPT !.nas_inited = TRUE, !.nas_server = parts[4]],
                   <<NasInfosCmd(<<"nas_server", " ">> \o parts[4])>>, <<>>)
    ELSE NasResult([st EXCEPT !.nas_inited = TRUE], <<>>, <<>>)

\* handle_cmd_show
nas_handle_cmd_show(st) ==
    NasResult(st,
        <<LogMsg(now, "nas", "INFO", <<"Nas", " ", "Server:", " ">> \o st.nas_server),
          LogMsg(now, "nas", "INFO", <<"Nas", " ", "State:", " ", st.nas_state>>),
          LogMsg(now, "nas", "INFO",
                 <<"Name", " ", "Onboard", " ", "Tailscale", " ", "IP">>)>>
        \o [k \in 1..Len(st.nas_infos) |->
              LogMsg(now, "nas", "INFO",
                     st.nas_infos[k].name
                     \o <<" ", IF st.nas_infos[k].onboard THEN "on" ELSE "off", " ">>
                     \o (IF st.nas_infos[k].tailscale_ip = <<>> THEN <<"n/a">>
                         ELSE st.nas_infos[k].tailscale_ip))],
        <<>>)

\* handle_cmd_nas_state: the state a client reports, kept on the server
handle_cmd_nas_state(st, parts) ==
    IF Len(parts) < 5 THEN NasResult(st, <<>>, <<>>)
    ELSE LET i == FindNasInfo(st.nas_infos, parts[4])
         IN  IF i = 0 THEN NasResult(st, <<>>, <<>>)
             ELSE IF parts[5] \in {<<"Synced">>, <<"Syncing">>}
             THEN NasResult([st EXCEPT !.nas_infos[i].nas_state = parts[5][1]],
                            <<NasInfosCmd(<<"nas_state", " ">> \o parts[4]
                                          \o <<" ">> \o parts[5])>>, <<>>)
             ELSE NasPanic(st)

\* the name of the NAS server of the clients modelled
NasServer == <<"srv">>

NasLog(level, words) == LogMsg(now, "nas", level, <<"[nas]", " ">> \o words)

\* the log line put_file ends with
PutFileLogTo(Local, Remote, remote_name, filename) ==
    IF ~PathExists(Local, filename)
    THEN NasLog("WARN", <<"PUT", " ", Backtick, filename, Backtick, " ", "failed.", " ",
                          "Fild", " ", "not", " ", "found.">>)
    ELSE IF IsFile(Local, filename)
            /\ verify_hash(Remote, filename,
                           hash_str(FromUtf8Lossy(Local[filename].content))) = 0
    THEN NasLog("INFO", <<"PUT", " ", Backtick, filename, Backtick, " ", "to", " ">>
                        \o remote_name \o <<" ", "ignored.", " ", "Same.">>)
    ELSE NasLog("INFO", <<"PUT", " ", Backtick, filename, Backtick, " ", "to", " ">>
                        \o remote_name)

PutFileLog(Local, Remote, filename) == PutFileLogTo(Local, Remote, NasServer, filename)

\* an HTTP request a handler of the nas plugin sends
Rpc(op, ip, filename) == [op |-> op, ip |-> ip, filename |-> filename]

\* the requests of put_file: none when the path is gone, /verify_hash, and
\* /upload when the remote reports a difference
PutFileRpcs(Local, Remote, ip, filename) ==
    IF ~PathExists(Local, filename) THEN <<>>
    ELSE IF verify_hash(Remote, filename,
                        hash_str(FromUtf8Lossy(Local[filename].content))) = 0
    THEN <<Rpc("verify_hash", ip, filename)>>
    ELSE <<Rpc("verify_hash", ip, filename), Rpc("upload", ip, filename)>>

\* the log line of remove_file
RemoveFileLog(remote_name, filename) ==
    NasLog("INFO", <<"REMOVE", " ", Backtick, filename, Backtick, " ", "to", " ">>
                   \o remote_name)

\* the argument of file_modify and file_remove: the filename in base64
B64Name(n) == "b64(" \o n \o ")"

\* STANDARD.decode(filename) and String::from_utf8: "" when either fails
B64DecodeName(word) ==
    IF \E n \in Names : word = <<B64Name(n)>>
    THEN CHOOSE n \in Names : word = <<B64Name(n)>>
    ELSE ""

\* the folder of this node and the folder of the nodes it sends to
LocalFolder(st) == IF st.nas_server = CfgName THEN srvFolder ELSE cliFolder

RemoteFolder(st) == IF st.nas_server = CfgName THEN cliFolder ELSE srvFolder

\* the nas handler result with the requests it made
NasSent(st, out, rpcs) == [NasResult(st, out, <<>>) EXCEPT !.rpcs = rpcs]

\* a client that forwards its changes unless it is Unsync
ClientSendsUnlessUnsync(st) == st.nas_state # "Unsync"

\* the client arm: self.nas_state == NasState::Synced
ClientSendsChanges(st) == st.nas_state = "Synced"

RECURSIVE ServerFileChange(_, _, _, _)
\* "send to all clients except me": the logs and requests for the
\* NasInfo entries from index i on
ServerFileChange(st, action, filename, i) ==
    IF i > Len(st.nas_infos) THEN [out |-> <<>>, rpcs |-> <<>>]
    ELSE LET nas_info == st.nas_infos[i]
             rest == ServerFileChange(st, action, filename, i + 1)
         IN  IF nas_info.name # st.nas_server /\ nas_info.tailscale_ip # <<>>
             THEN IF action = "file_modify"
                  THEN [out |-> <<PutFileLogTo(LocalFolder(st), RemoteFolder(st),
                                               nas_info.name, filename)>> \o rest.out,
                        rpcs |-> PutFileRpcs(LocalFolder(st), RemoteFolder(st),
                                             nas_info.tailscale_ip, filename)
                                 \o rest.rpcs]
                  ELSE [out |-> <<RemoveFileLog(nas_info.name, filename)>> \o rest.out,
                        rpcs |-> <<Rpc("remove", nas_info.tailscale_ip, filename)>>
                                 \o rest.rpcs]
             ELSE rest

\* handle_cmd_file_modify and handle_cmd_file_remove (action is the word
\* of the command); put_file reads the file it sends, which fails on a
\* directory
handle_cmd_file_change(st, action, parts) ==
    IF Len(parts) < 4 THEN NasResult(st, <<>>, <<>>)
    ELSE LET filename == B64DecodeName(parts[4])
         IN  IF filename = "" THEN NasPanic(st)           \* expect("Failed to decode")
             ELSE IF st.nas_server = CfgName
             THEN LET sent == ServerFileChange(st, action, filename, 1)
                  IN  IF action = "file_modify" /\ sent.out # <<>>
                         /\ IsDir(LocalFolder(st), filename)
                      THEN NasPanic(st)                   \* fs::read(..).unwrap()
                      ELSE NasSent(st, sent.out, sent.rpcs)
             ELSE IF ClientSendsChanges(st)
             THEN IF get_nas_server_ip(st) = <<>>
                  THEN NasPanic(st)                       \* must NOT be None
                  ELSE IF action = "file_modify"
                  THEN IF IsDir(LocalFolder(st), filename)
                       THEN NasPanic(st)                  \* fs::read(..).unwrap()
                       ELSE NasSent(st,
                              <<PutFileLogTo(LocalFolder(st), RemoteFolder(st),
                                             st.nas_server, filename)>>,
                              PutFileRpcs(LocalFolder(st), RemoteFolder(st),
                                          get_nas_server_ip(st), filename))
                  ELSE NasSent(st, <<RemoveFileLog(st.nas_server, filename)>>,
                               <<Rpc("remove", get_nas_server_ip(st), filename)>>)
             ELSE NasResult(st, <<>>, <<>>)

\* plugin_nas::PluginUnit::handle_cmd
nas_handle_cmd(st, m, parts) ==
    LET cmd == m.data.cmd
    IN  IF Len(parts) < 3
        THEN NasResult(st, <<MissingAction("nas", "INFO", cmd)>>, <<>>)
        ELSE CASE parts[3] = <<"init">> -> nas_handle_cmd_init(st, parts)
               [] parts[3] = <<"devices">> -> handle_cmd_devices(st, parts)
               [] parts[3] = <<ACTION_SELF_NAS_STATE>> -> handle_cmd_self_nas_state(st, parts)
               [] parts[3] = <<"show">> -> nas_handle_cmd_show(st)
               [] parts[3] = <<"nas_state">> -> handle_cmd_nas_state(st, parts)
               [] parts[3] \in {<<"file_modify">>, <<"file_remove">>} ->
                    handle_cmd_file_change(st, parts[3][1], parts)
               [] OTHER ->
                    NasResult(st, <<UnknownAction("nas", "INFO", parts[3], cmd)>>, <<>>)

\* the actions the match of handle_cmd names, for the plugins whose own
\* state is not part of the model
OtherActions(name) ==
    CASE name = "panels" ->
            {"init", "show", "tab", "size", "location", "arrow", "sub_title",
             "output_clear", "output_update", "output_push", "create"}
      [] name = "mqtt" -> {"init", "restart", "show", "publish", "arrow"}
      [] name = "devices" -> {"show", "onboard", "version", "tailscale_ip", "temperature"}
      [] name = "infos" -> {"gui", "show", "devices", "nas", "arrow", "weather"}
      [] name = "monitor" -> {"init"}
      [] name = "music" -> {"init", "show", "download"}
      [] OTHER -> {}

\* The handlers of the other plugins touch no state of the model in the
\* actions they know; the mqtt plugin has no client before "p mqtt init",
\* so its publish sends nothing.  A missing or unknown action is logged.
other_handle_cmd(name, st, m, parts) ==
    IF Len(parts) < 3
    THEN Result("plugin", name, st, <<MissingAction(name, "WARN", m.data.cmd)>>, {}, NoLog)
    ELSE IF \E a \in OtherActions(name) : parts[3] = <<a>>
    THEN Result("plugin", name, st, <<>>, {}, NoLog)
    ELSE Result("plugin", name, st,
                <<UnknownAction(name, "WARN", parts[3], m.data.cmd)>>, {}, NoLog)

\* Plugins::my_handle_cmd
my_handle_cmd(st, parts) ==
    IF Len(parts) >= 3 /\ parts[3] = <<"show">>
    THEN Result("plugin", "plugins", st,
                <<LogMsg(now, "plugins", "INFO", <<"plugins">>)>>
                \o [k \in 1..Len(PluginNames) |->
                       LogMsg(now, "plugins", "INFO", <<PluginNames[k]>>)],
                {}, NoLog)
    ELSE Result("plugin", "plugins", st, <<>>, {}, NoLog)

\* Plugins::handle_cmd
plugins_handle_cmd(st, m) ==
    LET cmd == m.data.cmd
        sp  == shell_split(cmd)
        cmd_parts == sp.parts
    IN  IF ~sp.ok
        THEN Result("panic", "", st, <<>>, {}, NoLog)     \* expect("Failed to parse cmd.")
        ELSE IF Len(cmd_parts) < 2
        THEN Result("warn", "", st,
                    <<LogMsg(now, "plugins", "WARN",
                        <<"[plugins]", " ", "Missing", " ", "plugin", " ", "name", " ", "for",
                          " ", "cmd", " ", Backtick>> \o cmd \o <<Backtick, ".">>)>>, {}, NoLog)
        ELSE LET plugin_name == cmd_parts[2]
             IN  CASE plugin_name = <<"plugins">> -> my_handle_cmd(st, cmd_parts)
                   [] plugin_name = <<"log">> -> log_handle_cmd(st, m, cmd_parts)
                   [] plugin_name = <<"scripts">> -> scripts_handle_cmd(st, m, cmd_parts)
                   [] plugin_name = <<"system">> -> system_handle_cmd(st, m, cmd_parts)
                   [] plugin_name = <<"weather">> -> weather_handle_cmd(st, m, cmd_parts)
                   [] plugin_name = <<"cli">> -> cli_handle_cmd(st, m, cmd_parts)
                   [] plugin_name = <<"nas">> -> nas_handle_cmd(st, m, cmd_parts)
                   [] Registered(plugin_name)
                      /\ plugin_name \notin {<<"log">>, <<"scripts">>, <<"system">>,
                                             <<"weather">>, <<"cli">>, <<"nas">>} ->
                        other_handle_cmd(plugin_name[1], st, m, cmd_parts)
                   [] OTHER ->
                        Result("warn", "", st,
                               <<LogMsg(now, "plugins", "WARN",
                                   <<"[plugins]", " ", "Unknown", " ", "plugin", " ", "name",
                                     " ", "(", Backtick>> \o plugin_name
                                   \o <<Backtick, ")", " ", "for", " ", "cmd", " ", Backtick>> \o cmd
                                   \o <<Backtick, ".">>)>>, {}, NoLog)

----------------------------------------------------------------------------
(* The bus (messages.rs).                                                  *)

\* parse_log: the Log as a command for the log plugin
parse_log(m) ==
    CmdMsg(m.ts, m.module,
           <<"p", " ", "log", " ", "log", " ", m.data.level, " ", "'">> \o m.data.msg
           \o <<"'">>)

\* parse_cmd
parse_cmd(st, m) ==
    LET cmd == StripComment(m.data.cmd)
        cmd_parts == split_whitespace(cmd)
    IN  IF cmd_parts = <<>>
        THEN Result("drop", "", st, <<>>, {}, NoLog)
        ELSE LET command == cmd_parts[1]
             IN  CASE command = <<"p">> -> plugins_handle_cmd(st, m)
                   [] command \in {<<"exit">>, <<"q">>, <<"quit">>} ->
                        Result("shutdown", "", st, <<>>, {}, NoLog)
                   [] OTHER ->
                        Result("warn", "", st,
                               <<LogMsg(now, "messages", "WARN",
                                   <<"[messages]", " ", "Unknown", " ", "command:", " ">>
                                   \o command)>>, {}, NoLog)

\* the arm of the consumer's match on msg.data
Route(st, m) ==
    IF m.data.kind = "Log"
    THEN Result("parse_log", "", st, <<parse_log(m)>>, {}, NoLog)
    ELSE parse_cmd(st, m)

\* a receive that takes the newest message
RecvNewest(q) == Len(q)

\* msg_rx.recv(): the oldest message of the channel
RecvIndex(q) == 1

\* a consumer that spawns the routine and goes back to its select
AfterSpawn == "select"

\* the consumer awaits the routine it dispatched
AfterDispatch == "await"

\* shutdown_notify.send(()): every subscribed receiver has one more value to
\* receive; above the capacity of the channel the receiver has lagged
Broadcast(r) ==
    [x \in DOMAIN r |->
        IF r[x] < 0 THEN r[x]
        ELSE IF r[x] > SHUTDOWN_CAP THEN r[x] ELSE r[x] + 1]

RemoveAt(q, k) == SubSeq(q, 1, k - 1) \o SubSeq(q, k + 1, Len(q))

\* numbered: whether the messages of the run are numbered as they are sent
\* and counted as they are routed
InitHist ==
    [numbered     |-> TRUE,
     retries      |-> 0,
     nextEid      |-> 2,
     lastEid      |-> 0,
     issued       |-> [p \in ProducerIds |-> IF p = "main" THEN 1 ELSE 0],
     lastN        |-> [p \in ProducerIds |-> 0],
     routed       |-> 0,
     shutdownSent |-> 0,
     lastLog      |-> NoLog,
     lastOrigin   |-> NoOrigin,
     last         |-> CmdMsg(0, "", <<"none">>),
     rpcs         |-> <<>>]

\* the consumer loop: subscribe, then select on msg_rx.recv() and
\* shutdown_rx.recv()
ConsumerSelect ==
    /\ proc = "running"
    /\ pc = "select"
    /\ \E branch \in {b \in {"msg", "shutdown"} :
                        \/ b = "msg" /\ queue # <<>>
                        \/ b = "shutdown" /\ rx["consumer"] >= 1} :
        IF branch = "shutdown"
        THEN /\ pc' = "exited"
             /\ UNCHANGED <<queue, handlers, plugins, rx, task, proc, hist, loops>>
        ELSE LET k == RecvIndex(queue)
                 e == queue[k]
                 r == Route(plugins, e.msg)
                 origin == IF r.kind = "parse_log"
                           THEN [kind |-> "Log", ts |-> e.msg.ts, module |-> e.msg.module,
                                 level |-> e.msg.data.level, msg |-> e.msg.data.msg]
                           ELSE NoOrigin
                 sent == IF r.kind = "shutdown" THEN Broadcast(rx) ELSE rx
             IN  /\ queue' = RemoveAt(queue, k)
                 /\ plugins' = r.st
                 /\ proc' = IF r.kind = "panic" THEN "panic" ELSE proc
                 /\ task' = [t \in Tasks |-> IF t \in r.spawn THEN "running" ELSE task[t]]
                 /\ loops' = loops \o r.nas_tasks
                 /\ IF r.out = <<>>
                    THEN /\ handlers' = handlers
                         /\ pc' = "select"
                         /\ rx' = [x \in Receivers |->
                                     IF x \in r.spawn \/ x = "consumer" THEN 0 ELSE sent[x]]
                    ELSE /\ handlers' = Append(handlers,
                                [kind |-> r.kind, plugin |-> r.plugin,
                                 out |-> Entries(r.out, "router",
                                                 IF hist.numbered
                                                 THEN hist.issued["router"] + 1 ELSE 0,
                                                 origin)])
                         /\ pc' = AfterDispatch
                         /\ rx' = [x \in Receivers |->
                                     IF x \in r.spawn THEN 0 ELSE sent[x]]
                 /\ hist' = IF ~hist.numbered
                            THEN [hist EXCEPT !.lastOrigin = e.origin, !.rpcs = r.rpcs]
                            ELSE [hist EXCEPT
                       !.rpcs = r.rpcs,
                       !.lastEid = e.eid,
                       !.lastN[e.src] = e.n,
                       !.issued["router"] = @ + Len(r.out),
                       !.routed = IF r.kind = "plugin" THEN @ + 1 ELSE @,
                       !.shutdownSent = IF r.kind = "shutdown" THEN @ + 1 ELSE @,
                       !.lastOrigin = e.origin,
                       !.last = e.msg,
                       !.lastLog = IF e.origin.kind = "Log" THEN r.logged ELSE @]
    /\ UNCHANGED <<now, script, budget, web>>
    /\ UNCHANGED planVars

\* msg_tx.send(msg).await in a dispatched routine: one message enters the
\* channel when there is room; after its last send the routine returns
HandlerSend ==
    /\ proc = "running"
    /\ Len(queue) < QueueCap
    /\ \E i \in DOMAIN handlers :
        LET h == handlers[i]
        IN  /\ queue' = Append(queue, [Head(h.out) EXCEPT
                                          !.eid = IF hist.numbered THEN hist.nextEid ELSE 0])
            /\ hist' = IF hist.numbered THEN [hist EXCEPT !.nextEid = @ + 1] ELSE hist
            /\ IF Len(h.out) = 1
               THEN /\ handlers' = RemoveAt(handlers, i)
                    /\ pc' = IF pc = "await" THEN "select" ELSE pc
                    /\ rx' = IF pc = "await" THEN [rx EXCEPT !["consumer"] = 0] ELSE rx
               ELSE /\ handlers' = [handlers EXCEPT ![i].out = Tail(@)]
                    /\ UNCHANGED <<pc, rx>>
    /\ UNCHANGED <<plugins, task, web, proc, now, script, budget>>
    /\ UNCHANGED <<planVars, loops>>

\* one message of producer src enters the channel
ProduceFrom(m, src, origin) ==
    /\ Len(queue) < QueueCap
    /\ queue' = Append(queue,
                       IF hist.numbered
                       THEN [Entry(m, src, hist.issued[src] + 1, origin)
                                EXCEPT !.eid = hist.nextEid]
                       ELSE Entry(m, src, 0, origin))
    /\ hist' = [hist EXCEPT !.nextEid = IF hist.numbered THEN @ + 1 ELSE @,
                            !.issued[src] = IF hist.numbered THEN @ + 1 ELSE @,
                            !.retries = IF src = "retry" /\ m.data.kind = "Cmd" THEN @ + 1 ELSE @]

Produce(m, src) == ProduceFrom(m, src, NoOrigin)

\* the Log messages the HTTP handlers send: [level, text]
LogInputs ==
    { [level |-> "INFO", msg |-> <<"[web]", " ", "API:", " ", "#", "1">>],
      [level |-> "WARN", msg |-> <<"[web]", " ", "can", "'", "t", " ", "write">>],
      [level |-> "INFO", msg |-> <<"[web]", " ", "'", "f", "'">>] }

\* web.rs log(): an HTTP handler sends a Log
WebApiLog ==
    /\ proc = "running"
    /\ budget > 0
    /\ \E l \in LogInputs : Produce(LogMsg(now, "web", l.level, l.msg), "web")
    /\ budget' = budget - 1
    /\ UNCHANGED <<pc, handlers, plugins, rx, task, web, proc, now, script>>
    /\ UNCHANGED <<planVars, loops>>

\* the command a task sends when its timer fires
TimerCmd(t) ==
    CASE t = "system" -> <<"p", " ", "system", " ", "publish">>
      [] t = "weather" -> <<"p", " ", "weather", " ", "update">>
      [] OTHER -> <<"p", " ", "panels", " ", "sub_title", " ">> \o plugins.cli_gui_panel
                  \o <<" ", "'", " ", "-", " ">> \o CfgName
                  \o <<" ", "-", " ", ts_str(now), "'">>

\* the loop of the system publisher (plugin_system.rs) and of the weather
\* poller (plugin_weather.rs): select on the timer and shutdown_rx.recv()
TaskSelect(t) ==
    /\ proc = "running"
    /\ t # "keys"
    /\ task[t] = "running"
    /\ \E branch \in {b \in {"timer", "shutdown"} :
                        \/ b = "timer" /\ budget > 0
                        \/ b = "shutdown" /\ rx[t] >= 1} :
        IF branch = "shutdown"
        THEN /\ task' = [task EXCEPT ![t] = "exited"]
             /\ UNCHANGED <<queue, hist, budget>>
        ELSE /\ Produce(CmdMsg(now, t, TimerCmd(t)), t)
             /\ budget' = budget - 1
             /\ UNCHANGED task
    /\ UNCHANGED <<pc, handlers, plugins, rx, web, proc, now, script>>
    /\ UNCHANGED <<planVars, loops>>

\* the keys of the model: a character, Backspace
Keys == {"q", "Backspace"}

\* start_input_loop_gui (plugin_cli.rs): select on a key and
\* shutdown_rx.recv(); a character or Backspace edits the prompt buffer the
\* task shares with the plugin, then the prompt is redrawn
KeyReader ==
    /\ proc = "running"
    /\ task["keys"] = "running"
    /\ \E branch \in {b \in {"key", "shutdown"} :
                        \/ b = "key" /\ budget > 0
                        \/ b = "shutdown" /\ rx["keys"] >= 1} :
        IF branch = "shutdown"
        THEN /\ task' = [task EXCEPT !["keys"] = "exited"]
             /\ UNCHANGED <<queue, hist, budget, plugins>>
        ELSE \E key \in Keys :
                LET output == IF key = "Backspace"
                              THEN SubSeq(plugins.cli_output, 1, Len(plugins.cli_output) - 1)
                              ELSE Append(plugins.cli_output, key)
                IN  /\ plugins' = [plugins EXCEPT !.cli_output = output]
                    /\ Produce(output_update_gui_simple(plugins.cli_gui_panel,
                                                        <<">", " ">> \o output), "keys")
                    /\ budget' = budget - 1
                    /\ UNCHANGED task
    /\ UNCHANGED <<pc, handlers, rx, web, proc, now, script>>
    /\ UNCHANGED <<planVars, loops>>

\* Web::run, shutdown_task: one recv(); the server is stopped when it is Ok
WebShutdownTask ==
    /\ proc = "running"
    /\ web = "running"
    /\ rx["web"] >= 1
    /\ web' = IF rx["web"] <= SHUTDOWN_CAP THEN "stopped" ELSE "lagged"
    /\ rx' = [rx EXCEPT !["web"] = @ - 1]
    /\ UNCHANGED <<queue, pc, handlers, plugins, task, proc, now, script, budget, hist>>
    /\ UNCHANGED <<planVars, loops>>

\* Web::run returns once the server task has finished; main returns Ok(())
MainReturn ==
    /\ proc = "running"
    /\ web = "stopped"
    /\ proc' = "exit0"
    /\ UNCHANGED <<queue, pc, handlers, plugins, rx, task, web, now, script, budget, hist>>
    /\ UNCHANGED <<planVars, loops>>

\* the wall clock advances
Tick ==
    /\ proc = "running"
    /\ now < MaxTs
    /\ now' = now + 1
    /\ UNCHANGED <<queue, pc, handlers, plugins, rx, task, web, proc, script, budget, hist>>
    /\ UNCHANGED <<planVars, loops>>

\* the lines an init script is made of
ScriptLines ==
    { <<>>,
      <<" ", " ">>,
      <<" ", "#", "exit">>,
      <<"exit">>,
      <<"q", " ", "#", "bye">>,
      <<"zz">>,
      <<"p", " ", "weather", " ", "init">>,
      <<"p", " ", "nope", " ", "x">>,
      <<"p", " ", "log", " ", "gui", " ", "main">>,
      <<"p", " ", "cli", " ", "init", " ", "gui", " ", "main">> }

RECURSIVE SeqsUpTo(_, _)
\* the sequences over S of length at most n
SeqsUpTo(S, n) ==
    IF n = 0 THEN {<<>>}
    ELSE LET shorter == SeqsUpTo(S, n - 1)
         IN  shorter \cup {Append(q, x) : q \in shorter, x \in S}

EmptyFolder == [n \in Names |-> Absent]

\* The state once main has built the App and the Web server and subscribed
\* the server to the shutdown channel: the command of App::run is in the
\* channel.  The start-up logs ("[<module>] new") that are in the channel
\* with it are left out: no panel is set yet, the log plugin prints them
\* and they change no state.
InitWith(scripts) ==
    /\ script \in scripts
    /\ now = 1
    /\ queue = <<[Entry(CmdMsg(1, "app",
                    <<"p", " ", "scripts", " ", "init", " ", "./init.scripts">>),
                    "main", 1, NoOrigin) EXCEPT !.eid = 1]>>
    /\ pc = "select"
    /\ handlers = <<>>
    /\ plugins = InitPlugins
    /\ rx = [x \in Receivers |-> IF x \in {"consumer", "web", "system"} THEN 0 ELSE -1]
    /\ task = [t \in Tasks |-> IF t = "system" THEN "running" ELSE "none"]
    /\ web = "running"
    /\ proc = "running"
    /\ budget = MaxSends
    /\ hist = InitHist
    /\ loops = <<>>
    /\ srvFolder = EmptyFolder
    /\ cliFolder = EmptyFolder
    /\ plan = PlanIdle

Init ==
    InitWith({ScriptFile(l) : l \in SeqsUpTo(ScriptLines, MaxScriptLen)} \cup {NoScript})

Next ==
    \/ ConsumerSelect
    \/ HandlerSend
    \/ WebApiLog
    \/ \E t \in Tasks : TaskSelect(t)
    \/ KeyReader
    \/ WebShutdownTask
    \/ MainReturn
    \/ Tick

Spec == Init /\ [][Next]_vars

\* The shutdown path on its own: the init script holds shutdown commands and
\* the init of a polling task, no HTTP request arrives and no key is pressed.
ShutdownLines ==
    { <<"exit">>,
      <<"q", " ", "#", "bye">>,
      <<"p", " ", "weather", " ", "init">> }

InitShutdown == InitWith({ScriptFile(l) : l \in SeqsUpTo(ShutdownLines, MaxScriptLen)})

NextShutdown ==
    \/ ConsumerSelect
    \/ HandlerSend
    \/ \E t \in Tasks : TaskSelect(t)
    \/ WebShutdownTask
    \/ MainReturn

\* The runtime polls every task that is ready: the consumer, the routine it
\* awaits, the detached tasks, the server's shutdown task and main.
Fairness ==
    /\ WF_vars(ConsumerSelect)
    /\ WF_vars(HandlerSend)
    /\ \A t \in Tasks : WF_vars(TaskSelect(t))
    /\ WF_vars(WebShutdownTask)
    /\ WF_vars(MainReturn)

FairSpec == InitShutdown /\ [][NextShutdown]_vars /\ Fairness

----------------------------------------------------------------------------
(* SpecNas: a client of the NAS server "srv": the bus, the nas plugin, the  *)
(* tasks it spawns, the folders of both nodes.                             *)

\* the slip: the comparison is the wrong way round
CheckHashInverted(F, client_hash_str) ==
    LET file_list == FileListNew(F)
    IN  [result |-> IF client_hash_str = file_list.hash_str THEN 1 ELSE 0,
         file_list |-> file_list]

\* web.rs check_hash: result 0 when the lists hash alike, else 1 and the
\* list of the server
check_hash(F, client_hash_str) ==
    LET file_list == FileListNew(F)
    IN  [result |-> IF client_hash_str = file_list.hash_str THEN 0 ELSE 1,
         file_list |-> file_list]

\* a loop that reports Synced whatever the result
AlwaysSynced(result) == "Synced"

\* the state the loop reports for a result of check_hash
SelfStateFor(result) == IF result = 0 THEN "Synced" ELSE "Syncing"

\* the publications of the server the devices plugin forwards to the nas
\* plugin: onboard, offboard, address
DeviceCmds ==
    { <<"p", " ", "nas", " ", "devices", " ", "onboard", " ", "srv", " ", "1">>,
      <<"p", " ", "nas", " ", "devices", " ", "onboard", " ", "srv", " ", "0">>,
      <<"p", " ", "nas", " ", "devices", " ", "tailscale_ip", " ", "srv", " ", "ip1">> }

\* plugin_devices.rs: every publication is forwarded, changed or not
DeviceEvent ==
    /\ proc = "running"
    /\ budget > 0
    /\ \E c \in DeviceCmds : Produce(CmdMsg(now, "devices", c), "devices")
    /\ budget' = budget - 1
    /\ UNCHANGED <<pc, handlers, plugins, rx, task, web, proc, now, script, loops>>
    /\ UNCHANGED planVars

\* head of the loop: FileList::new, then the log line
LoopStart ==
    \E k \in DOMAIN loops :
        /\ proc = "running"
        /\ loops[k].kind = "loop"
        /\ \/ loops[k].pc = "start"
           \/ loops[k].pc = "exec" /\ loops[k].i > Len(loops[k].actions)
        /\ loops[k].rounds < MaxRounds
        /\ Produce(NasLog("INFO", NasServer \o <<":", " ", "Check", " ", "hash.">>), "loop")
        /\ loops' = [loops EXCEPT ![k].pc = "post", ![k].list = FileListNew(cliFolder)]
        /\ UNCHANGED <<pc, handlers, plugins, rx, task, web, proc, now, script, budget>>
        /\ UNCHANGED planVars

\* POST /check_hash and its response
LoopCheckHash ==
    \E k \in DOMAIN loops :
        /\ proc = "running"
        /\ loops[k].kind = "loop"
        /\ loops[k].pc = "post"
        /\ LET resp == check_hash(srvFolder, loops[k].list.hash_str)
           IN  loops' = [loops EXCEPT ![k].pc = "report", ![k].result = resp.result,
                                      ![k].server_list = resp.file_list,
                                      ![k].rounds = @ + 1]
        /\ UNCHANGED <<queue, pc, handlers, plugins, rx, task, web, proc, now, script, budget,
                       hist>>
        /\ UNCHANGED planVars

\* the log line of the result
LoopReport ==
    \E k \in DOMAIN loops :
        /\ proc = "running"
        /\ loops[k].kind = "loop"
        /\ loops[k].pc = "report"
        /\ Produce(NasLog("INFO",
                     NasServer \o (IF loops[k].result = 0
                                   THEN <<":", " ", "Hash", " ", "matched.", " ", "Synced.">>
                                   ELSE <<":", " ", "Hash", " ", "mismatched.", " ", "Start",
                                          " ", "to", " ", "sync.">>)), "loop")
        /\ loops' = [loops EXCEPT ![k].pc = "state"]
        /\ UNCHANGED <<pc, handlers, plugins, rx, task, web, proc, now, script, budget>>
        /\ UNCHANGED planVars

\* the command of the result; on a match the loop breaks, else it plans
LoopSelfState ==
    \E k \in DOMAIN loops :
        /\ proc = "running"
        /\ loops[k].kind = "loop"
        /\ loops[k].pc = "state"
        /\ ProduceFrom(CmdMsg(now, "nas",
                         <<"p", " ", "nas", " ", ACTION_SELF_NAS_STATE, " ",
                           SelfStateFor(loops[k].result)>>),
                       "loop",
                       [kind |-> "check_hash", result |-> loops[k].result,
                        server |-> loops[k].server_list.hash_str,
                        client |-> loops[k].list.hash_str])
        /\ IF loops[k].result = 0
           THEN loops' = RemoveAt(loops, k)
           ELSE loops' = [loops EXCEPT ![k].pc = "exec", ![k].i = 1,
                            ![k].actions =
                                compare_and_generate_actions(loops[k].server_list, loops[k].list)]
        /\ UNCHANGED <<pc, handlers, plugins, rx, task, web, proc, now, script, budget>>
        /\ UNCHANGED planVars

\* the next action of the plan, then its log line
LoopExec ==
    \E k \in DOMAIN loops :
        /\ proc = "running"
        /\ loops[k].kind = "loop"
        /\ loops[k].pc = "exec"
        /\ loops[k].i <= Len(loops[k].actions)
        /\ LET action == loops[k].actions[loops[k].i]
           IN  IF action.kind = "GetFile"
               THEN /\ cliFolder' = get_file(srvFolder, cliFolder, action.filename)
                    /\ Produce(NasLog("INFO", <<"GET", " ", Backtick, action.filename, Backtick,
                                                " ", "from", " ">> \o NasServer), "loop")
                    /\ UNCHANGED srvFolder
               ELSE /\ srvFolder' \in {put_file(cliFolder, srvFolder, action.filename),
                                       srvFolder}      \* let _ = ...upload...send().await
                    /\ Produce(PutFileLog(cliFolder, srvFolder, action.filename), "loop")
                    /\ UNCHANGED cliFolder
        /\ loops' = [loops EXCEPT ![k].i = @ + 1]
        /\ UNCHANGED <<pc, handlers, plugins, rx, task, web, proc, now, script, budget, plan>>

\* An RPC of the loop whose result is unwrapped fails: POST /check_hash,
\* POST /download, or POST /verify_hash in put_file (sent when the path
\* exists).  send().await.unwrap() panics in the task, and the panic hook
\* of main exits the process.
LoopRpcFail ==
    \E k \in DOMAIN loops :
        /\ proc = "running"
        /\ loops[k].kind = "loop"
        /\ \/ loops[k].pc = "post"
           \/ /\ loops[k].pc = "exec"
              /\ loops[k].i <= Len(loops[k].actions)
              /\ \/ loops[k].actions[loops[k].i].kind = "GetFile"
                 \/ PathExists(cliFolder, loops[k].actions[loops[k].i].filename)
        /\ loops' = [loops EXCEPT ![k].pc = "failed"]
        /\ proc' = "panic"
        /\ UNCHANGED <<queue, pc, handlers, plugins, rx, task, web, now, script, budget, hist>>
        /\ UNCHANGED planVars

\* the timer spawned while the address of the server is unknown: its log line
RetryLog ==
    \E k \in DOMAIN loops :
        /\ proc = "running"
        /\ loops[k].kind = "retry"
        /\ loops[k].pc = "log"
        /\ Produce(NasLog("INFO", NasServer \o <<":", " ", "Unknown", " ", "IP,", " ",
                                                "re-onboard", " ", "in", " ",
                                                ToString(WAITING_FOR_NAS_SERVER_IP_DELAY), " ",
                                                "seconds.">>), "retry")
        /\ loops' = [loops EXCEPT ![k].pc = "sleep"]
        /\ UNCHANGED <<pc, handlers, plugins, rx, task, web, proc, now, script, budget>>
        /\ UNCHANGED planVars

\* the sleep is over: re-onboard
RetrySend ==
    \E k \in DOMAIN loops :
        /\ proc = "running"
        /\ loops[k].kind = "retry"
        /\ loops[k].pc = "sleep"
        /\ hist.retries < MaxRetries
        /\ Produce(CmdMsg(now, "nas",
                     <<"p", " ", "nas", " ", "devices", " ", "onboard", " ">> \o NasServer
                     \o <<" ", "'", "1", "'">>), "retry")
        /\ loops' = RemoveAt(loops, k)
        /\ UNCHANGED <<pc, handlers, plugins, rx, task, web, proc, now, script, budget>>
        /\ UNCHANGED planVars

FolderWith(name, content, mtime) ==
    [EmptyFolder EXCEPT ![name] = [content |-> content, mtime |-> mtime]]

\* the folders of the server and of the client when the client starts
NasPairs ==
    { <<EmptyFolder, EmptyFolder>>,
      <<FolderWith("./nas/a", "x", 1), EmptyFolder>> }

\* the server as the nas plugin knows it once its address has been published
KnownServer ==
    [name |-> NasServer, onboard |-> FALSE, nas_state |-> "Unsync",
     tailscale_ip |-> <<"ip1">>]

\* The client after "p nas init srv": state Unsync, no task of the plugin
\* running, the server not heard of or heard of and gone.
InitNas ==
    /\ \E pair \in NasPairs : srvFolder = pair[1] /\ cliFolder = pair[2]
    /\ plan = PlanIdle
    /\ \E infos \in {<<>>, <<KnownServer>>} :
          plugins = [InitPlugins EXCEPT !.nas_inited = TRUE, !.nas_server = NasServer,
                                        !.nas_infos = infos]
    /\ queue = <<>>
    /\ pc = "select"
    /\ handlers = <<>>
    /\ rx = [x \in Receivers |-> IF x \in {"consumer", "web", "system"} THEN 0 ELSE -1]
    /\ task = [t \in Tasks |-> IF t = "system" THEN "running" ELSE "none"]
    /\ web = "running"
    /\ proc = "running"
    /\ now = 1
    /\ script = NoScript
    /\ budget = MaxEvents
    /\ loops = <<>>
    /\ hist = [InitHist EXCEPT !.numbered = FALSE]

NextNas ==
    \/ ConsumerSelect
    \/ HandlerSend
    \/ DeviceEvent
    \/ LoopStart
    \/ LoopCheckHash
    \/ LoopReport
    \/ LoopSelfState
    \/ LoopExec
    \/ LoopRpcFail
    \/ RetryLog
    \/ RetrySend

SpecNas == InitNas /\ [][NextNas]_vars

\* SpecRetry: the client that has not heard of the server, the server
\* holding a file the client lacks, and three publications of the server
InitRetry ==
    /\ srvFolder = FolderWith("./nas/a", "x", 1) /\ cliFolder = EmptyFolder
    /\ plan = PlanIdle
    /\ plugins = [InitPlugins EXCEPT !.nas_inited = TRUE, !.nas_server = NasServer]
    /\ queue = <<>>
    /\ pc = "select"
    /\ handlers = <<>>
    /\ rx = [x \in Receivers |-> IF x \in {"consumer", "web", "system"} THEN 0 ELSE -1]
    /\ task = [t \in Tasks |-> IF t = "system" THEN "running" ELSE "none"]
    /\ web = "running"
    /\ proc = "running"
    /\ now = 1
    /\ script = NoScript
    /\ budget = MaxRetryEvents
    /\ loops = <<>>
    /\ hist = [InitHist EXCEPT !.numbered = FALSE]

SpecRetry == InitRetry /\ [][NextNas]_vars

----------------------------------------------------------------------------
(* Commands handled one at a time: the consumer with one or two commands   *)
(* in the channel and the plugins in a state earlier commands left.        *)

\* the commands typed at the prompt, read from a script or sent by a task
CmdInputs ==
    { <<"p", " ", "system", " ", "zz">>,
      <<"p", " ", "system", " ", "show">>,
      <<"p", " ", "nas", " ", "zz">>,
      <<"p", " ", "nas", " ", "show">>,
      <<"p", " ", "mqtt", " ", "zz">>,
      <<"p", " ", "mqtt", " ", "show">>,
      <<"p", " ", "monitor", " ", "zz", " ", "x">>,
      <<"p", " ", "cli", " ", "zz", " ", "x">>,
      <<"p", " ", "weather", " ", "zz">>,
      <<"p", " ", "log", " ", "zz">>,
      <<"p", " ", "scripts", " ", "zz">>,
      <<"p", " ", "nas", " ", ACTION_SELF_NAS_STATE, " ", "Bogus">>,
      <<"p", " ", "nas", " ", ACTION_SELF_NAS_STATE, " ", "Syncing">>,
      <<"p", " ", "nas", " ", "nas_state", " ", "srv", " ", "Bogus">>,
      <<"p", " ", "nas", " ", "nas_state", " ", "srv", " ", "Synced">>,
      <<"p", " ", "nas", " ", "file_modify", " ", B64Name("./nas/a")>>,
      <<"p", " ", "nas", " ", "file_remove", " ", B64Name("./nas/a")>> }

\* the NasInfo of a node
NasInfoOf(name, onboard, nas_state, ip) ==
    [name |-> name, onboard |-> onboard, nas_state |-> nas_state, tailscale_ip |-> ip]

\* States of the plugins after "p nas init <server>" and the device events
\* and state reports that followed.  On a client (server srv) the state is
\* Syncing or Synced only after a loop ran, which takes the address of
\* the server.  On the server (this node) there is an entry for the node
\* itself and one for each client heard of: c2, and c3 which may have gone
\* offboard after publishing its address.
CmdStates ==
    { [InitPlugins EXCEPT !.nas_inited = TRUE, !.nas_server = NasServer,
                          !.nas_state = x[1], !.nas_infos = x[2]] :
        x \in { <<"Unsync", <<>> >>,
                <<"Unsync", <<KnownServer>> >>,
                <<"Syncing", <<NasInfoOf(NasServer, TRUE, "Unsync", <<"ip1">>)>> >>,
                <<"Synced", <<NasInfoOf(NasServer, TRUE, "Unsync", <<"ip1">>)>> >> } }
    \cup
    { [InitPlugins EXCEPT !.nas_inited = TRUE, !.nas_server = CfgName,
                          !.nas_infos = <<NasInfoOf(CfgName, TRUE, "Unsync", <<"ip0">>)>>
                                        \o infos] :
        infos \in { <<NasInfoOf(<<"c2">>, TRUE, "Unsync", <<"ip2">>)>>,
                    <<NasInfoOf(<<"c2">>, TRUE, "Unsync", <<>>)>>,
                    <<NasInfoOf(<<"c2">>, TRUE, "Unsync", <<"ip2">>),
                      NasInfoOf(<<"c3">>, TRUE, "Unsync", <<"ip3">>)>>,
                    <<NasInfoOf(<<"c2">>, TRUE, "Unsync", <<"ip2">>),
                      NasInfoOf(<<"c3">>, FALSE, "Unsync", <<"ip3">>)>> } }

\* the folders of the server and of a client
CmdFolders ==
    { <<EmptyFolder, EmptyFolder>>,
      <<FolderWith("./nas/a", "x", 1), EmptyFolder>>,
      <<EmptyFolder, FolderWith("./nas/a", "x", 1)>>,
      <<FolderWith("./nas/a", "x", 1), FolderWith("./nas/a", "x", 1)>> }

\* the names peers give in POST /check_hash: a client the server has an
\* entry for, one it has none for
CheckHashNames == { <<"c2">>, <<"c9">> }

\* web.rs check_hash: the handler lists the folder of this node, sends its
\* log line and the nas_state command for the peer
WebCheckHash ==
    /\ proc = "running"
    /\ budget > 0
    /\ Len(queue) + 2 <= QueueCap
    /\ \E name \in CheckHashNames,
          hash \in {FileListNew(srvFolder).hash_str, FileListNew(cliFolder).hash_str} :
          LET file_list == FileListNew(LocalFolder(plugins))
              hash_str_same == hash = file_list.hash_str
          IN  queue' = queue \o
                <<Entry(LogMsg(now, "web", "INFO",
                          <<"[web]", " ", "API:", " ", "check_hash:", " ">> \o name
                          \o <<",", " ", "result:", " ",
                               IF hash_str_same THEN "Same" ELSE "Different">>),
                        "web", 0, NoOrigin),
                  Entry(CmdMsg(now, "web",
                          <<"p", " ", "nas", " ", "nas_state", " ">> \o name
                          \o <<" ", IF hash_str_same THEN "Synced" ELSE "Syncing">>),
                        "web", 0,
                        [kind |-> "web_check_hash", name |-> name,
                         same |-> hash_str_same])>>
    /\ budget' = budget - 1
    /\ UNCHANGED <<pc, handlers, plugins, rx, task, web, proc, now, script, hist>>
    /\ UNCHANGED <<planVars, loops>>

InitCmd ==
    /\ plugins \in CmdStates
    /\ \E cs \in SeqsUpTo(CmdInputs, MaxCmds) :
          /\ cs # <<>>
          /\ queue = [k \in 1..Len(cs) |-> Entry(CmdMsg(1, "cli", cs[k]), "keys", 0, NoOrigin)]
    /\ pc = "select"
    /\ handlers = <<>>
    /\ rx = [x \in Receivers |-> IF x \in {"consumer", "web", "system"} THEN 0 ELSE -1]
    /\ task = [t \in Tasks |-> IF t = "system" THEN "running" ELSE "none"]
    /\ web = "running"
    /\ proc = "running"
    /\ now = 1
    /\ script = NoScript
    /\ budget = MaxChecks
    /\ loops = <<>>
    /\ hist = [InitHist EXCEPT !.numbered = FALSE]
    /\ \E pair \in CmdFolders : srvFolder = pair[1] /\ cliFolder = pair[2]
    /\ plan = PlanIdle

NextCmd ==
    \/ ConsumerSelect
    \/ HandlerSend
    \/ WebCheckHash

SpecCmd == InitCmd /\ [][NextCmd]_vars

----------------------------------------------------------------------------
(* SpecMon: the task of the monitor plugin: filesystem events, the         *)
(* debounce map and the delayed handlers.  The clock counts seconds.  The  *)
(* consumer of the bus is left out: the messages the handlers send stay in *)
(* the channel, which holds 4096 of them.                                 *)

DEBOUNCE_DELAY == 10

\* the events of the watcher: kind is the whole EventKind, which the key
\* of the debounce map holds; a rename names both paths
FsEvents ==
    { [kind |-> "Modify(Data)", paths |-> <<"./nas/a">>],
      [kind |-> "Modify(Metadata)", paths |-> <<"./nas/a">>],
      [kind |-> "Remove(File)", paths |-> <<"./nas/a">>],
      [kind |-> "Create(File)", paths |-> <<"./nas/a">>],
      [kind |-> "Modify(Data)", paths |-> <<"./nas/c">>],
      [kind |-> "Modify(Name(Both))", paths |-> <<"./nas/a", "./nas/c">>] }

\* the arm of the match on event.kind in handle_event
KindClass(kind) ==
    CASE kind \in {"Modify(Data)", "Modify(Metadata)", "Modify(Name(Both))"} -> "Modify"
      [] kind = "Remove(File)" -> "Remove"
      [] kind = "Create(File)" -> "Create"
      [] OTHER -> "Other"

\* the keys of the debounce map: (path_str, event.kind)
MonKeys == UNION {{<<e.paths[i], e.kind>> : i \in 1..Len(e.paths)} : e \in FsEvents}

\* plugin_monitor::monitor_get_file: the path from "./nas/" on, "" where
\* the path holds no "./nas/"
monitor_get_file(file_path) == IF file_path \in Names THEN file_path ELSE ""

\* the two messages handle_event sends for one path
EventMsgs(t, what, action, filename) ==
    << Entry(LogMsg(t, "monitor", "INFO",
                <<"[monitor]", " ", "File", " ", "is", " ", what \o ":", " ", filename>>),
             "monitor", 0, NoOrigin),
       Entry(CmdMsg(t, "monitor",
                <<"p", " ", "nas", " ", action, " ", B64Name(filename)>>),
             "monitor", 0, NoOrigin) >>

\* plugin_monitor::handle_event: the messages sent, one pair for every
\* path of the event
RECURSIVE handle_event(_, _, _)
handle_event(event, t, i) ==
    IF i > Len(event.paths) THEN <<>>
    ELSE LET filename == monitor_get_file(event.paths[i])
             class == KindClass(event.kind)
         IN  (CASE class = "Modify" -> EventMsgs(t, "modified", "file_modify", filename)
                [] class = "Remove" -> EventMsgs(t, "removed", "file_remove", filename)
                [] OTHER -> <<>>)
             \o handle_event(event, t, i + 1)

\* the slip: the task the map held for the key is left running
KeepPrevious(tasks, handle) == tasks

\* map.remove(&key) and handle.abort(): a task that has finished stays
\* finished
AbortPrevious(tasks, handle) ==
    IF handle # 0 /\ tasks[handle].pc = "sleeping"
    THEN [tasks EXCEPT ![handle].pc = "aborted"]
    ELSE tasks

\* the body of the select arm on rx.recv(): for every path of the event the
\* task of its key is aborted, a task is spawned and stored in the map
RECURSIVE DebouncePaths(_, _, _, _, _)
DebouncePaths(tasks, map, event, t, i) ==
    IF i > Len(event.paths) THEN [tasks |-> tasks, map |-> map]
    ELSE LET key == <<event.paths[i], event.kind>>
             aborted == AbortPrevious(tasks, map[key])
             spawned == Append(aborted, [kind |-> "debounce", key |-> key,
                                         event |-> event,
                                         due |-> t + DEBOUNCE_DELAY,
                                         pc |-> "sleeping"])
         IN  DebouncePaths(spawned, [map EXCEPT ![key] = Len(spawned)], event, t, i + 1)

InitMon ==
    /\ plan = [debounce_map |-> [key \in MonKeys |-> 0]]
    /\ loops = <<>>
    /\ queue = <<>>
    /\ now = 0
    /\ budget = MaxFsEvents
    /\ hist = [last_event |-> [key \in MonKeys |-> 0 - 1]]
    /\ proc = "running"
    /\ srvFolder = EmptyFolder /\ cliFolder = EmptyFolder
    /\ pc = "idle" /\ handlers = <<>> /\ plugins = <<>>
    /\ rx = <<>> /\ task = <<>> /\ web = "idle"
    /\ script = [found |-> FALSE, lines |-> <<>>]

\* the watcher hands an event to the task of the plugin
FsEvent ==
    /\ proc = "running"
    /\ budget > 0
    /\ \E event \in FsEvents :
          LET r == DebouncePaths(loops, plan.debounce_map, event, now, 1)
          IN  /\ loops' = r.tasks
              /\ plan' = [plan EXCEPT !.debounce_map = r.map]
              /\ hist' = [hist EXCEPT !.last_event =
                            [key \in MonKeys |->
                               IF \E i \in 1..Len(event.paths) :
                                     key = <<event.paths[i], event.kind>>
                               THEN now ELSE @[key]]]
    /\ budget' = budget - 1
    /\ UNCHANGED <<srvFolder, cliFolder, queue, pc, handlers, plugins, rx, task, web,
                   proc, now, script>>

\* a delayed task wakes from its sleep and runs handle_event
DebounceFire ==
    /\ proc = "running"
    /\ \E k \in DOMAIN loops :
          /\ loops[k].pc = "sleeping"
          /\ loops[k].due <= now
          /\ queue' = queue \o handle_event(loops[k].event, now, 1)
          /\ loops' = [loops EXCEPT ![k].pc = "done"]
    /\ UNCHANGED <<srvFolder, cliFolder, plan, pc, handlers, plugins, rx, task, web,
                   proc, now, script, budget, hist>>

\* time passes, never past the end of a sleep
MonTick ==
    /\ proc = "running"
    /\ now + MonStep <= MaxMonTs
    /\ \A k \in DOMAIN loops : loops[k].pc = "sleeping" => now + MonStep <= loops[k].due
    /\ now' = now + MonStep
    /\ UNCHANGED <<srvFolder, cliFolder, plan, queue, pc, handlers, plugins, rx, task,
                   web, proc, script, budget, loops, hist>>

NextMon == FsEvent \/ DebounceFire \/ MonTick

SpecMon == InitMon /\ [][NextMon]_vars

----------------------------------------------------------------------------
(* SpecWeb: the file endpoints of the HTTP server (web.rs): POST /upload,   *)
(* /remove and /download on the folder of the node.  A path is the         *)
(* sequence of its separators "/" and of the pieces between them; the      *)
(* process runs in the directory /app.                                      *)

\* the filenames of the requests
WebPaths ==
    { <<".", "/", "nas", "/", "a">>,
      <<"nas", "/", "c">>,
      <<".", "/", "nas", "/", ".", "/", "a", "/", "b">>,
      <<".", "/", "nas", "/", "..", "/", "nas", "/", "a">>,
      <<"..", "/", "app", "/", "nas", "/", "c">>,
      <<"/", "app", "/", "nas", "/", "a">> }

\* the pieces of a path between its separators, empty pieces included
RECURSIVE PathPieces(_, _, _)
PathPieces(path, i, piece) ==
    IF i > Len(path) THEN <<piece>>
    ELSE IF path[i] = "/" THEN <<piece>> \o PathPieces(path, i + 1, <<>>)
    ELSE PathPieces(path, i + 1, Append(piece, path[i]))

\* Path::is_absolute
IsAbsolute(path) == path # <<>> /\ path[1] = "/"

\* Path::components: RootDir for a leading separator, CurDir for a leading
\* ".", ParentDir for "..", Normal for a name; empty pieces and "." after
\* the start are skipped
RECURSIVE ComponentsFrom(_, _)
ComponentsFrom(pieces, i) ==
    IF i > Len(pieces) THEN <<>>
    ELSE (CASE pieces[i] = <<>> -> <<>>
            [] pieces[i] = <<".">> ->
                 IF i = 1 THEN <<[kind |-> "CurDir", name |-> <<>>]>> ELSE <<>>
            [] pieces[i] = <<"..">> -> <<[kind |-> "ParentDir", name |-> <<>>]>>
            [] OTHER -> <<[kind |-> "Normal", name |-> pieces[i]]>>)
         \o ComponentsFrom(pieces, i + 1)

Components(path) ==
    (IF IsAbsolute(path) THEN <<[kind |-> "RootDir", name |-> <<>>]>> ELSE <<>>)
    \o ComponentsFrom(PathPieces(path, 1, <<>>), 1)

\* the slip: only absolute paths are refused
IsRelativeFilename(path) == ~IsAbsolute(path)

\* web::is_valid_filename
is_valid_filename(path) ==
    /\ \A i \in DOMAIN Components(path) : Components(path)[i].kind \in {"Normal", "CurDir"}
    /\ ~IsAbsolute(path)

\* the configuration file of the node, /app/cfg.json: a file of the working
\* directory that lies outside the shared folder
CfgFile == "cfg.json"

\* the directory a path names, walked from the root or from /app
RECURSIVE Walk(_, _, _)
Walk(comps, i, dir) ==
    IF i > Len(comps) THEN dir
    ELSE Walk(comps, i + 1,
              CASE comps[i].kind = "RootDir" -> <<>>
                [] comps[i].kind = "ParentDir" ->
                     IF dir = <<>> THEN <<>> ELSE SubSeq(dir, 1, Len(dir) - 1)
                [] comps[i].kind = "Normal" -> Append(dir, comps[i].name)
                [] OTHER -> dir)

\* the file of the shared folder the filesystem opens for a path, "" when
\* the path leads elsewhere
Resolve(path) ==
    LET at == Walk(Components(path), 1, <<<<"app">>>>)
    IN  CASE at = <<<<"app">>, <<"nas">>, <<"a">>>> -> "./nas/a"
          [] at = <<<<"app">>, <<"nas">>, <<"a">>, <<"b">>>> -> "./nas/a/b"
          [] at = <<<<"app">>, <<"nas">>, <<"c">>>> -> "./nas/c"
          [] at = <<<<"app">>, <<"cfg.json">>>> -> CfgFile
          [] OTHER -> ""

\* nas_info::safe_remove: the folder afterwards; a directory goes with all
\* that lies below it
safe_remove(F, n) ==
    IF IsFile(F, n) THEN [F EXCEPT ![n] = Absent]
    ELSE [g \in Names |-> IF n \in ParentDirs(g) THEN Absent ELSE F[g]]

\* write_file fails: the path is a directory or lies below a file
WriteFileFails(F, n) == IsDir(F, n) \/ ~CanCreateParents(F, n)

\* the log line of an endpoint
WebLog(level, words) == Entry(LogMsg(now, "web", level, <<"[web]", " ">> \o words),
                              "web", 0, NoOrigin)

\* the answer of an endpoint: status, the folder afterwards, the files
\* read, written or removed, the log line
WebAnswer(status, F, touched, logs) ==
    [status |-> status, folder |-> F, touched |-> touched, logs |-> logs]

\* POST /upload
web_upload(F, filename, content, mtime) ==
    IF ~is_valid_filename(filename) THEN WebAnswer(400, F, {}, <<>>)
    ELSE LET n == Resolve(filename)
         IN  IF WriteFileFails(F, n)
             THEN WebAnswer(500, F, {n},
                            <<WebLog("WARN", <<"Failed", " ", "to", " ", "write", " ",
                                               Backtick>> \o filename \o <<Backtick>>)>>)
             ELSE WebAnswer(200, write_file(F, n, content, mtime), {n},
                            <<WebLog("INFO", <<"API:", " ", "upload", " ", Backtick>>
                                             \o filename \o <<Backtick>>)>>)

\* POST /remove
web_remove(F, filename) ==
    IF ~is_valid_filename(filename) THEN WebAnswer(400, F, {}, <<>>)
    ELSE LET n == Resolve(filename)
         IN  IF ~PathExists(F, n)
             THEN WebAnswer(500, F, {n},
                            <<WebLog("WARN", <<"Failed", " ", "to", " ", "remove", " ",
                                               Backtick>> \o filename \o <<Backtick>>)>>)
             ELSE WebAnswer(200, safe_remove(F, n), {n},
                            <<WebLog("INFO", <<"API:", " ", "REMOVE", " ", Backtick>>
                                             \o filename \o <<Backtick>>)>>)

\* POST /download
web_download(F, filename) ==
    IF ~is_valid_filename(filename) THEN WebAnswer(400, F, {}, <<>>)
    ELSE LET n == Resolve(filename)
         IN  IF ~IsFile(F, n)
             THEN WebAnswer(404, F, {n}, <<>>)
             ELSE WebAnswer(200, F, {n},
                            <<WebLog("INFO", <<"API:", " ", "GET", " ", Backtick>>
                                             \o filename \o <<Backtick>>)>>)

\* the folder of the node when the requests arrive
WebFolders ==
    { EmptyFolder,
      FolderWith("./nas/a", "x", 1),
      FolderWith("./nas/a/b", "x", 1),
      [FolderWith("./nas/a", "x", 1) EXCEPT !["./nas/c"] = [content |-> "x", mtime |-> 0]] }

InitWeb ==
    /\ srvFolder \in WebFolders
    /\ cliFolder = EmptyFolder
    /\ queue = <<>>
    /\ budget = MaxRequests
    /\ hist = [endpoint |-> "none", filename |-> <<>>, status |-> 0, touched |-> {},
               before |-> EmptyFolder]
    /\ proc = "running" /\ web = "running" /\ now = 1
    /\ plan = PlanIdle /\ loops = <<>>
    /\ pc = "idle" /\ handlers = <<>> /\ plugins = <<>>
    /\ rx = <<>> /\ task = <<>>
    /\ script = [found |-> FALSE, lines |-> <<>>]

\* the server answers one request
WebAnswers(endpoint, filename, r) ==
    /\ web = "running"
    /\ budget > 0
    /\ srvFolder' = r.folder
    /\ queue' = queue \o r.logs
    /\ hist' = [endpoint |-> endpoint, filename |-> filename, status |-> r.status,
                touched |-> r.touched, before |-> srvFolder]
    /\ budget' = budget - 1
    /\ UNCHANGED <<cliFolder, plan, pc, handlers, plugins, rx, task, web, proc, now,
                   script, loops>>

WebUpload ==
    \E filename \in WebPaths, c \in {"x", "bad1"}, m \in {0, MaxMtime} :
        WebAnswers("upload", filename,
                   web_upload(srvFolder, filename, B64Encode(c), ToRfc3339(m)))

WebRemove ==
    \E filename \in WebPaths :
        WebAnswers("remove", filename, web_remove(srvFolder, filename))

WebDownload ==
    \E filename \in WebPaths :
        WebAnswers("download", filename, web_download(srvFolder, filename))

NextWeb == WebUpload \/ WebRemove \/ WebDownload

SpecWeb == InitWeb /\ [][NextWeb]_vars

----------------------------------------------------------------------------
(* The panels plugin (plugin_panels.rs).  The state of the unit: inited,    *)
(* terminal (TRUE while self.terminal is Some), active_panel (from 0),     *)
(* panels, and overflow_checks: whether the build checks u16 arithmetic    *)
(* (a debug build panics on overflow, a release build wraps).  The screen  *)
(* drawn by terminal.draw is no state of the unit.                         *)

MAX_OUTPUT_LEN == 300

U16Max == 65535

\* str::parse::<u16>: the number, -1 for an Err
ParseU16(word) ==
    CASE word = <<"0">> -> 0
      [] word = <<"2">> -> 2
      [] word = <<"3">> -> 3
      [] word = <<"100">> -> 100
      [] word = <<"101">> -> 101
      [] word = <<"65535">> -> 65535
      [] OTHER -> 0 - 1

NewPanel(title, plugin_name, x, y, width, height) ==
    [title |-> title, sub_title |-> <<>>, plugin_name |-> plugin_name,
     x |-> x, y |-> y, width |-> width, height |-> height, output |-> <<>>]

PanelsOk(st, out) == [kind |-> "ok", st |-> st, out |-> out]

PanelsPanic(st) == [kind |-> "panic", st |-> st, out |-> <<>>]

\* the index in panels of the first panel of that title, 0 when none
FindPanel(panels, title) ==
    IF \E i \in 1..Len(panels) : panels[i].title = title
    THEN CHOOSE i \in 1..Len(panels) :
            /\ panels[i].title = title
            /\ \A j \in 1..(i - 1) : panels[j].title # title
    ELSE 0

\* the panel the loops over panels stop at: idx == self.active_panel
ActiveIdx(st) == IF st.active_panel + 1 <= Len(st.panels) THEN st.active_panel + 1 ELSE 0

\* v += 1 on a u16: the build decides what an overflow does
PlusOne(st, p, v) ==
    IF v = U16Max /\ st.overflow_checks
    THEN PanelsPanic(st)
    ELSE PanelsOk([st EXCEPT !.panels[ActiveIdx(st)] = p], <<>>)

\* handle_cmd_size: self.terminal.take() comes first, and the terminal is
\* put back only where the command names an action
handle_cmd_size(st, parts) ==
    IF ~st.terminal THEN PanelsOk(st, <<>>)
    ELSE IF Len(parts) < 4 THEN PanelsOk([st EXCEPT !.terminal = FALSE], <<>>)
    ELSE IF ActiveIdx(st) = 0 THEN PanelsOk(st, <<>>)
    ELSE LET panel == st.panels[ActiveIdx(st)]
         IN  CASE parts[4] = <<"+x">> ->
                    PlusOne(st, [panel EXCEPT !.width = (@ + 1) % (U16Max + 1)], panel.width)
               [] parts[4] = <<"-x">> ->
                    PanelsOk([st EXCEPT !.panels[ActiveIdx(st)].width =
                                           IF @ > 2 THEN @ - 1 ELSE @], <<>>)
               [] parts[4] = <<"+y">> ->
                    PlusOne(st, [panel EXCEPT !.height = (@ + 1) % (U16Max + 1)], panel.height)
               [] parts[4] = <<"-y">> ->
                    PanelsOk([st EXCEPT !.panels[ActiveIdx(st)].height =
                                           IF @ > 2 THEN @ - 1 ELSE @], <<>>)
               [] OTHER -> PanelsOk(st, <<>>)

\* handle_cmd_location
handle_cmd_location(st, parts) ==
    IF ~st.terminal THEN PanelsOk(st, <<>>)
    ELSE IF Len(parts) < 4 THEN PanelsOk([st EXCEPT !.terminal = FALSE], <<>>)
    ELSE IF ActiveIdx(st) = 0 THEN PanelsOk(st, <<>>)
    ELSE LET panel == st.panels[ActiveIdx(st)]
         IN  CASE parts[4] = <<"up">> ->
                    PanelsOk([st EXCEPT !.panels[ActiveIdx(st)].y =
                                           IF @ > 0 THEN @ - 1 ELSE @], <<>>)
               [] parts[4] = <<"down">> ->
                    PlusOne(st, [panel EXCEPT !.y = (@ + 1) % (U16Max + 1)], panel.y)
               [] parts[4] = <<"left">> ->
                    PanelsOk([st EXCEPT !.panels[ActiveIdx(st)].x =
                                           IF @ > 0 THEN @ - 1 ELSE @], <<>>)
               [] parts[4] = <<"right">> ->
                    PlusOne(st, [panel EXCEPT !.x = (@ + 1) % (U16Max + 1)], panel.x)
               [] OTHER -> PanelsOk(st, <<>>)

\* handle_cmd_tab: the remainder by panels.len() panics where no panel is
handle_cmd_tab(st) ==
    IF ~st.terminal THEN PanelsOk(st, <<>>)
    ELSE IF Len(st.panels) = 0 THEN PanelsPanic(st)
    ELSE PanelsOk([st EXCEPT !.active_panel = (@ + 1) % Len(st.panels)], <<>>)

\* the slip: the oldest entry is dropped once the cap is reached, one
\* entry early
PushKeepingOneLess(output, entry) ==
    LET pushed == Append(output, entry)
    IN  IF Len(pushed) >= MAX_OUTPUT_LEN
        THEN SubSeq(pushed, Len(pushed) - MAX_OUTPUT_LEN + 2, Len(pushed))
        ELSE pushed

\* panel.output.push(..) and the drain of what exceeds MAX_OUTPUT_LEN
PushCapped(output, entry) ==
    LET pushed == Append(output, entry)
    IN  IF Len(pushed) > MAX_OUTPUT_LEN
        THEN SubSeq(pushed, Len(pushed) - MAX_OUTPUT_LEN + 1, Len(pushed))
        ELSE pushed

\* the arms output_clear, output_update and output_push of handle_cmd
handle_cmd_output(st, parts) ==
    IF ~st.terminal THEN PanelsOk(st, <<>>)
    ELSE IF parts[3] = <<"output_clear">>
    THEN IF ActiveIdx(st) = 0 THEN PanelsOk(st, <<>>)
         ELSE PanelsOk([st EXCEPT !.panels[ActiveIdx(st)].output = <<>>], <<>>)
    ELSE IF Len(parts) < 5 \/ FindPanel(st.panels, parts[4]) = 0 THEN PanelsOk(st, <<>>)
    ELSE LET i == FindPanel(st.panels, parts[4])
         IN  IF parts[3] = <<"output_update">>
             THEN PanelsOk([st EXCEPT !.panels[i].output = <<parts[5]>>], <<>>)
             ELSE PanelsOk([st EXCEPT !.panels[i].output = PushCapped(@, parts[5])], <<>>)

\* a create arm that does not ask for the terminal
CreateWithoutTerminal(st, m, parts) ==
    IF Len(parts) < 9 THEN PanelsOk(st, <<>>)
    ELSE IF \E i \in 6..9 : ParseU16(parts[i]) < 0 THEN PanelsPanic(st)
    ELSE PanelsOk([st EXCEPT !.panels =
                      Append(@, NewPanel(parts[4], parts[5], ParseU16(parts[6]),
                                         ParseU16(parts[7]), ParseU16(parts[8]),
                                         ParseU16(parts[9])))], <<>>)

\* the arm ACTION_CREATE of handle_cmd: a command short of an argument
\* warns and leaves the terminal taken
handle_cmd_create(st, m, parts) ==
    IF ~st.terminal THEN PanelsOk(st, <<>>)
    ELSE IF Len(parts) < 9
    THEN PanelsOk([st EXCEPT !.terminal = FALSE],
                  <<LogMsg(now, "panels", "WARN",
                      <<"[panels]", " ", "Missing", " ",
                        "title/plugin_name/x/y/width/height", " ", "for", " ", "cmd", " ",
                        Backtick>> \o m.data.cmd \o <<Backtick, ".">>)>>)
    ELSE IF \E i \in 6..9 : ParseU16(parts[i]) < 0 THEN PanelsPanic(st)
    ELSE PanelsOk([st EXCEPT !.panels =
                      Append(@, NewPanel(parts[4], parts[5], ParseU16(parts[6]),
                                         ParseU16(parts[7]), ParseU16(parts[8]),
                                         ParseU16(parts[9])))], <<>>)

\* handle_cmd_arrow: the key goes to the plugin of the active panel
handle_cmd_arrow(st, parts) ==
    IF Len(parts) < 4 \/ ActiveIdx(st) = 0 THEN PanelsOk(st, <<>>)
    ELSE PanelsOk(st, <<CmdMsg(now, "panels",
                          <<"p", " ">> \o st.panels[ActiveIdx(st)].plugin_name
                          \o <<" ", "arrow", " ">> \o parts[4])>>)

\* handle_cmd_sub_title
handle_cmd_sub_title(st, parts) ==
    IF ~st.terminal \/ Len(parts) < 5 \/ FindPanel(st.panels, parts[4]) = 0
    THEN PanelsOk(st, <<>>)
    ELSE PanelsOk([st EXCEPT !.panels[FindPanel(st.panels, parts[4])].sub_title = parts[5]],
                  <<>>)

\* handle_cmd_init
panels_handle_cmd_init(st) ==
    IF st.inited THEN PanelsOk(st, <<>>)
    ELSE PanelsOk([st EXCEPT !.inited = TRUE, !.terminal = TRUE],
                  <<LogMsg(now, "panels", "INFO", <<"[panels]", " ", "init">>)>>)

\* handle_cmd_show: two lines, the header, one line for every panel
panels_handle_cmd_show(st) ==
    PanelsOk(st,
        <<LogMsg(now, "panels", "INFO", <<"[panels]", " ", "show">>),
          LogMsg(now, "panels", "INFO",
                 <<"[panels]", " ", "inited:", " ", IF st.inited THEN "true" ELSE "false">>),
          LogMsg(now, "panels", "INFO", <<"Title", " ", "Subtitle", " ", "Plugin">>)>>
        \o [i \in 1..Len(st.panels) |->
              LogMsg(now, "panels", "INFO",
                     st.panels[i].title \o <<" ">> \o st.panels[i].sub_title \o <<" ">>
                     \o st.panels[i].plugin_name)])

\* plugin_panels::PluginUnit::handle_cmd for the command m
panels_handle_cmd(st, m) ==
    LET split == shell_split(m.data.cmd)
        parts == split.parts
    IN  IF ~split.ok THEN PanelsPanic(st)
        ELSE IF Len(parts) < 3
        THEN PanelsOk(st, <<MissingAction("panels", "WARN", m.data.cmd)>>)
        ELSE CASE parts[3] = <<"init">> -> panels_handle_cmd_init(st)
               [] parts[3] = <<"show">> -> panels_handle_cmd_show(st)
               [] parts[3] = <<"tab">> -> handle_cmd_tab(st)
               [] parts[3] = <<"size">> -> handle_cmd_size(st, parts)
               [] parts[3] = <<"location">> -> handle_cmd_location(st, parts)
               [] parts[3] = <<"arrow">> -> handle_cmd_arrow(st, parts)
               [] parts[3] = <<"sub_title">> -> handle_cmd_sub_title(st, parts)
               [] parts[3] \in {<<"output_clear">>, <<"output_update">>, <<"output_push">>} ->
                    handle_cmd_output(st, parts)
               [] parts[3] = <<"create">> -> handle_cmd_create(st, m, parts)
               [] OTHER -> PanelsOk(st, <<UnknownAction("panels", "WARN", parts[3],
                                                        m.data.cmd)>>)

\* the consumer hands the command cmd to the panels plugin
PanelsHandle(cmd) ==
    LET r == panels_handle_cmd(plugins, CmdMsg(now, "cli", cmd))
    IN  /\ proc = "running"
        /\ plugins' = r.st
        /\ queue' = queue \o [i \in 1..Len(r.out) |-> Entry(r.out[i], "panels", 0, NoOrigin)]
        /\ proc' = IF r.kind = "panic" THEN "panic" ELSE proc

PanelsCmd(words) == <<"p", " ", "panels">> \o words

\* the unit after "p panels init" and the creation of two panels
PanelsUnit(panels, active_panel, overflow_checks) ==
    [inited |-> TRUE, terminal |-> TRUE, active_panel |-> active_panel,
     panels |-> panels, overflow_checks |-> overflow_checks]

(* SpecPush: output_push commands to two panels, and commands that name no  *)
(* action.                                                                 *)

PushTitles == {<<"cmdpanel">>, <<"side">>}

InitPush ==
    /\ plugins = PanelsUnit(<<NewPanel(<<"cmdpanel">>, <<"cli">>, 0, 0, 3, 3),
                              NewPanel(<<"side">>, <<"log">>, 3, 0, 3, 3)>>, 0, TRUE)
    /\ hist = [pushed |-> [t \in PushTitles |-> 0]]
    /\ queue = <<>>
    /\ proc = "running" /\ now = 1 /\ budget = 0
    /\ srvFolder = EmptyFolder /\ cliFolder = EmptyFolder /\ plan = PlanIdle
    /\ pc = "idle" /\ handlers = <<>> /\ rx = <<>> /\ task = <<>> /\ web = "idle"
    /\ script = [found |-> FALSE, lines |-> <<>>] /\ loops = <<>>

\* "p panels output_push <title> '<n>'": the n-th push to that panel
PushCmd ==
    /\ \E title \in PushTitles :
          /\ hist.pushed[title] < (IF title = <<"cmdpanel">> THEN MaxPushes ELSE MaxSidePushes)
          /\ PanelsHandle(PanelsCmd(<<" ", "output_push", " ">> \o title
                                    \o <<" ", "'", ToString(hist.pushed[title] + 1), "'">>))
          /\ hist' = [hist EXCEPT !.pushed[title] = @ + 1]
    /\ UNCHANGED <<srvFolder, cliFolder, plan, pc, handlers, rx, task, web, now, script,
                   budget, loops>>

\* "p panels size" and "p panels location" typed without their argument
NoArgCmd ==
    /\ \E a \in {"size", "location"} : PanelsHandle(PanelsCmd(<<" ", a>>))
    /\ UNCHANGED <<srvFolder, cliFolder, plan, pc, handlers, rx, task, web, now, script,
                   budget, loops, hist>>

NextPush == PushCmd \/ NoArgCmd

SpecPush == InitPush /\ [][NextPush]_vars

(* SpecPanels: a few commands handled by the unit with two panels.          *)

\* the panel the commands work on, at a floor, in the middle and at the
\* largest u16
PanelGeometries ==
    { NewPanel(<<"p1">>, <<"cli">>, 0, 0, 2, 2),
      NewPanel(<<"p1">>, <<"cli">>, 3, 3, 3, 3),
      NewPanel(<<"p1">>, <<"cli">>, U16Max, U16Max, U16Max, U16Max) }

GeometryCmds ==
    { <<" ", "size", " ", "+x">>, <<" ", "size", " ", "-x">>,
      <<" ", "size", " ", "+y">>, <<" ", "size", " ", "-y">>,
      <<" ", "location", " ", "up">>, <<" ", "location", " ", "down">>,
      <<" ", "location", " ", "left">>, <<" ", "location", " ", "right">> }

PanelCmds ==
    GeometryCmds \cup
    { <<" ", "size">>, <<" ", "location">>, <<" ", "size", " ", "zz">>,
      <<" ", "tab">>, <<" ", "init">>, <<" ", "show">>, <<" ", "zz">>, <<>>,
      <<" ", "arrow", " ", "up">>,
      <<" ", "sub_title", " ", "p1", " ", "'", "s", "'">>,
      <<" ", "output_push", " ", "p1", " ", "'", "x", "'">>,
      <<" ", "output_update", " ", "p2", " ", "'", "y", "'">>,
      <<" ", "output_clear">>,
      <<" ", "create", " ", "p3", " ", "log", " ", "0", " ", "0", " ", "3", " ", "3">>,
      <<" ", "create", " ", "p3", " ", "log", " ", "0", " ", "0", " ", "3", " ", "-1">>,
      <<" ", "create", " ", "p3", " ", "log">> }

InitPanels ==
    /\ \E p1 \in PanelGeometries, active_panel \in {0, 1}, overflow_checks \in BOOLEAN :
          plugins = PanelsUnit(<<p1, NewPanel(<<"p2">>, <<"log">>, 3, 3, 3, 3)>>,
                               active_panel, overflow_checks)
    /\ hist = [cmd |-> <<>>, before |-> <<>>]
    /\ queue = <<>>
    /\ budget = MaxPanelCmds
    /\ proc = "running" /\ now = 1
    /\ srvFolder = EmptyFolder /\ cliFolder = EmptyFolder /\ plan = PlanIdle
    /\ pc = "idle" /\ handlers = <<>> /\ rx = <<>> /\ task = <<>> /\ web = "idle"
    /\ script = [found |-> FALSE, lines |-> <<>>] /\ loops = <<>>

PanelsStep ==
    /\ budget > 0
    /\ \E words \in PanelCmds :
          /\ PanelsHandle(PanelsCmd(words))
          /\ hist' = [cmd |-> words, before |-> plugins]
    /\ budget' = budget - 1
    /\ UNCHANGED <<srvFolder, cliFolder, plan, pc, handlers, rx, task, web, now, script,
                   loops>>

NextPanels == PanelsStep

SpecPanels == InitPanels /\ [][NextPanels]_vars

(* SpecFresh: the panels plugin from PluginUnit::new on: no panel, no       *)
(* terminal, not inited.                                                   *)

\* PluginUnit::new
PanelsNew(overflow_checks) ==
    [inited |-> FALSE, terminal |-> FALSE, active_panel |-> 0, panels |-> <<>>,
     overflow_checks |-> overflow_checks]

FreshCmds ==
    { <<" ", "init">>, <<" ", "tab">>,
      <<" ", "create", " ", "p1", " ", "cli", " ", "0", " ", "0", " ", "100", " ", "3">>,
      <<" ", "create", " ", "p2", " ", "log", " ", "0", " ", "0", " ", "101", " ", "3">>,
      <<" ", "create", " ", "p3">>,
      <<" ", "size", " ", "+x">>,
      <<" ", "location", " ", "right">>,
      <<" ", "sub_title", " ", "p1", " ", "'", "s", "'">>,
      <<" ", "output_push", " ", "p1", " ", "'", "x", "'">>,
      <<" ", "output_update", " ", "p1", " ", "'", "y", "'">>,
      <<" ", "output_clear">> }

InitFresh ==
    /\ \E overflow_checks \in BOOLEAN : plugins = PanelsNew(overflow_checks)
    /\ hist = [cmd |-> <<>>, before |-> PanelsNew(TRUE)]
    /\ queue = <<>>
    /\ budget = MaxFreshCmds
    /\ proc = "running" /\ now = 1
    /\ srvFolder = EmptyFolder /\ cliFolder = EmptyFolder /\ plan = PlanIdle
    /\ pc = "idle" /\ handlers = <<>> /\ rx = <<>> /\ task = <<>> /\ web = "idle"
    /\ script = [found |-> FALSE, lines |-> <<>>] /\ loops = <<>>

FreshStep ==
    /\ budget > 0
    /\ \E words \in FreshCmds :
          /\ PanelsHandle(PanelsCmd(words))
          /\ hist' = [cmd |-> words, before |-> plugins]
    /\ budget' = budget - 1
    /\ UNCHANGED <<srvFolder, cliFolder, plan, pc, handlers, rx, task, web, now, script,
                   loops>>

\* the consumer takes the oldest message, a log line of the plugin
FreshDrain ==
    /\ proc = "running"
    /\ queue # <<>>
    /\ queue' = Tail(queue)
    /\ UNCHANGED <<srvFolder, cliFolder, plan, pc, handlers, plugins, rx, task, web, proc,
                   now, script, budget, loops, hist>>

NextFresh == FreshStep \/ FreshDrain

SpecFresh == InitFresh /\ [][NextFresh]_vars

(* SpecInit: the four plugins that spawn a background task when they       *)
(* handle init (monitor, weather, panels, todos), given init commands in   *)
(* any order and number.  task counts the background tasks of each plugin. *)

SpawningPlugins == {"monitor", "weather", "panels", "todos"}

InitOut(st, out, spawned) == [st |-> st, out |-> out, spawned |-> spawned]

\* plugin_monitor::PluginUnit::handle_cmd_init
monitor_handle_cmd_init(st) ==
    IF st.inited THEN InitOut(st, <<>>, 0)
    ELSE InitOut([st EXCEPT !.inited = TRUE],
                 <<LogMsg(now, "monitor", "INFO", <<"[monitor]", " ", "init">>)>>, 1)

\* plugin_weather::PluginUnit::handle_cmd_init
weather_handle_cmd_init(st) ==
    IF st.inited THEN InitOut(st, <<>>, 0)
    ELSE InitOut([st EXCEPT !.inited = TRUE],
                 <<CmdMsg(now, "weather", <<"p", " ", "weather", " ", "update">>),
                   LogMsg(now, "weather", "INFO", <<"[weather]", " ", "init">>)>>, 1)

\* plugin_panels::PluginUnit::handle_cmd_init with the task it spawns
panels_init_task(st) ==
    InitOut(panels_handle_cmd_init(st).st, panels_handle_cmd_init(st).out,
            IF st.inited THEN 0 ELSE 1)

\* plugin_todos::PluginUnit::handle_cmd_init: start_todo, then the log
todos_handle_cmd_init(st) ==
    InitOut(st,
            <<LogMsg(now, "todos", "INFO",
                     <<"[todos]", " ", "Check", " ", "routine", " ", "started">>),
              LogMsg(now, "todos", "INFO", <<"[todos]", " ", "init">>)>>, 1)

HandleInit(p, st) ==
    CASE p = "monitor" -> monitor_handle_cmd_init(st)
      [] p = "weather" -> weather_handle_cmd_init(st)
      [] p = "panels" -> panels_init_task(st)
      [] p = "todos" -> todos_handle_cmd_init(st)

InitSpawn ==
    /\ plugins = [monitor |-> [inited |-> FALSE],
                  weather |-> [inited |-> FALSE],
                  panels |-> PanelsNew(TRUE),
                  todos |-> [todos |-> <<>>, tasks |-> <<>>]]
    /\ task = [p \in SpawningPlugins |-> 0]
    /\ hist = [cmd |-> "", before |-> plugins, tasks |-> task, done |-> {},
               again |-> FALSE]
    /\ queue = <<>>
    /\ budget = MaxInitCmds
    /\ proc = "running" /\ now = 1
    /\ srvFolder = EmptyFolder /\ cliFolder = EmptyFolder /\ plan = PlanIdle
    /\ pc = "idle" /\ handlers = <<>> /\ rx = <<>> /\ web = "idle"
    /\ script = [found |-> FALSE, lines |-> <<>>] /\ loops = <<>>

\* the consumer routes "p <plugin> init" to the plugin
RouteInit ==
    /\ budget > 0
    /\ \E p \in SpawningPlugins :
          LET r == HandleInit(p, plugins[p])
          IN  /\ plugins' = [plugins EXCEPT ![p] = r.st]
              /\ task' = [task EXCEPT ![p] = @ + r.spawned]
              /\ Len(queue) + Len(r.out) <= MaxInitQueue
              /\ queue' = queue \o r.out
              /\ hist' = [cmd |-> p, before |-> plugins, tasks |-> task,
                          done |-> hist.done \cup {p}, again |-> p \in hist.done]
    /\ budget' = budget - 1
    /\ UNCHANGED <<srvFolder, cliFolder, plan, pc, handlers, rx, web, proc, now, script,
                   loops>>

\* a background task of the weather or the todos plugin sends its command
InitTaskFire ==
    /\ Len(queue) < MaxInitQueue
    /\ \E p \in {"weather", "todos"} :
          /\ task[p] > 0
          /\ queue' = Append(queue,
                 CmdMsg(now, p, <<"p", " ", p, " ",
                                  IF p = "weather" THEN "update" ELSE "check">>))
    /\ UNCHANGED <<srvFolder, cliFolder, plan, pc, handlers, plugins, rx, task, web, proc,
                   now, script, budget, loops, hist>>

\* the consumer takes the oldest message: a log line, or an update or check
\* command, which changes nothing while no city and no todo is recorded
InitDrain ==
    /\ queue # <<>>
    /\ queue' = Tail(queue)
    /\ UNCHANGED <<srvFolder, cliFolder, plan, pc, handlers, plugins, rx, task, web, proc,
                   now, script, budget, loops, hist>>

NextInit == RouteInit \/ InitTaskFire \/ InitDrain

SpecInit == InitSpawn /\ [][NextInit]_vars

(* SpecDisk: the file endpoints of the HTTP server, /verify_hash included,  *)
(* on a disk that holds the shared folder and the configuration file of    *)
(* the node next to it.                                                    *)

DiskNames == Names \cup {CfgFile}

\* the filenames of the requests
DiskPaths ==
    { <<".", "/", "nas", "/", "a">>,
      <<"nas", "/", "c">>,
      <<"cfg.json">>,
      <<".", "/", "cfg.json">>,
      <<"..", "/", "app", "/", "cfg.json">>,
      <<"/", "app", "/", "cfg.json">> }

\* POST /verify_hash: the path is read as it comes; result 0 for a file
\* with the hash of the request
web_verify_hash(F, filename, h) ==
    LET n == Resolve(filename)
    IN  IF n = "" \/ ~IsFile(F, n) \/ ~CanCreateParents(F, n)
        THEN [status |-> 200, folder |-> F, touched |-> {}, logs |-> <<>>, result |-> 1]
        ELSE [status |-> 200, folder |-> F, touched |-> {n},
              logs |-> <<WebLog("INFO",
                           <<"API:", " ", "verify_hash:", " ", Backtick>> \o filename
                           \o <<Backtick, ",", " ", "result:", " ",
                                IF verify_hash(F, n, h) = 0 THEN "Same" ELSE "Different">>)>>,
              result |-> verify_hash(F, n, h)]

\* the disk of the node when the requests arrive
Disks ==
    { [n \in DiskNames |->
          IF n = CfgFile THEN [content |-> c, mtime |-> 1]
          ELSE IF n = "./nas/a" /\ a THEN [content |-> "x", mtime |-> 1]
          ELSE Absent] : c \in {"x", "bad1"}, a \in BOOLEAN }

InitDisk ==
    /\ srvFolder \in Disks
    /\ cliFolder = EmptyFolder
    /\ queue = <<>>
    /\ budget = MaxDiskRequests
    /\ hist = [endpoint |-> "none", filename |-> <<>>, status |-> 0, touched |-> {},
               before |-> srvFolder, result |-> 1]
    /\ proc = "running" /\ web = "running" /\ now = 1
    /\ plan = PlanIdle /\ loops = <<>>
    /\ pc = "idle" /\ handlers = <<>> /\ plugins = <<>>
    /\ rx = <<>> /\ task = <<>>
    /\ script = [found |-> FALSE, lines |-> <<>>]

\* the server answers one request
DiskAnswers(endpoint, filename, r, result) ==
    /\ web = "running"
    /\ budget > 0
    /\ srvFolder' = r.folder
    /\ queue' = r.logs
    /\ hist' = [endpoint |-> endpoint, filename |-> filename, status |-> r.status,
                touched |-> r.touched, before |-> srvFolder, result |-> result]
    /\ budget' = budget - 1
    /\ UNCHANGED <<cliFolder, plan, pc, handlers, plugins, rx, task, web, proc, now,
                   script, loops>>

DiskUpload ==
    \E filename \in DiskPaths, c \in {"x", "bad1"} :
        DiskAnswers("upload", filename,
                    web_upload(srvFolder, filename, B64Encode(c), ToRfc3339(MaxMtime)), 1)

DiskRemove ==
    \E filename \in DiskPaths :
        DiskAnswers("remove", filename, web_remove(srvFolder, filename), 1)

DiskDownload ==
    \E filename \in DiskPaths :
        DiskAnswers("download", filename, web_download(srvFolder, filename), 1)

DiskVerifyHash ==
    \E filename \in DiskPaths, c \in {"x", "bad1"} :
        LET r == web_verify_hash(srvFolder, filename, hash_str(FromUtf8Lossy(c)))
        IN  DiskAnswers("verify_hash", filename, r, r.result)

NextDisk == DiskUpload \/ DiskRemove \/ DiskDownload \/ DiskVerifyHash

SpecDisk == InitDisk /\ [][NextDisk]_vars

(* SpecBounce: a server and two clients in sync; a file of the shared      *)
(* folder is modified on one node, the watchers report, the nas plugins    *)
(* PUT.  cliFolder holds the folder of every client, plugins the NasState  *)
(* of every client, queue the set of reports the watchers have pending     *)
(* (one for each node and path, as the debounce keeps one task a key).     *)
(* hist.from names, for a file that /upload has written, the node that     *)
(* sent it; hist.back counts the uploads sent back to that node.           *)

FleetClients == {"c1", "c2"}

Fleet == {"srv"} \cup FleetClients

FleetFiles == {"./nas/a", "./nas/c"}

FolderOf(n) == IF n = "srv" THEN srvFolder ELSE cliFolder[n]

\* put_file sends POST /upload: the file is there and the pre-check
\* answers 1
UploadSent(Local, Remote, filename) ==
    /\ IsFile(Local, filename)
    /\ verify_hash(Remote, filename, hash_str(FromUtf8Lossy(Local[filename].content))) # 0

\* the nodes handle_cmd_file_modify of node n puts the file to: the server
\* every client it knows the address of, a client in state Synced the server
PutTargets(n) ==
    IF n = "srv" THEN FleetClients
    ELSE IF plugins[n] = "Synced" THEN {"srv"} ELSE {}

InitBounce ==
    /\ \E F \in {EmptyFolder, FolderWith("./nas/a", "x", 0),
                 FolderWith("./nas/a", "bad1", 0)} :
          /\ srvFolder = F
          /\ cliFolder = [c \in FleetClients |-> F]
    /\ plugins \in [FleetClients -> {"Synced", "Unsync"}]
    /\ queue = {}
    /\ budget = MaxLocalMods
    /\ hist = [mods |-> 0, origin |-> "", reports |-> 0, back |-> 0,
               uploads |-> [n \in Fleet |-> 0],
               from |-> [n \in Fleet |-> [f \in FleetFiles |-> ""]]]
    /\ proc = "running" /\ web = "running" /\ now = 1
    /\ plan = PlanIdle /\ loops = <<>>
    /\ pc = "idle" /\ handlers = <<>>
    /\ rx = <<>> /\ task = <<>>
    /\ script = [found |-> FALSE, lines |-> <<>>]

\* a file of node n is written by its user: the watcher of n has a report
\* pending
LocalModify ==
    /\ budget > 0
    /\ \E n \in Fleet, f \in FleetFiles, c \in Contents :
          LET F == [FolderOf(n) EXCEPT ![f] = [content |-> c, mtime |-> MaxMtime]]
          IN  /\ IF n = "srv"
                 THEN srvFolder' = F /\ cliFolder' = cliFolder
                 ELSE cliFolder' = [cliFolder EXCEPT ![n] = F] /\ srvFolder' = srvFolder
              /\ queue' = queue \cup {[node |-> n, filename |-> f]}
              /\ hist' = [hist EXCEPT !.mods = @ + 1, !.origin = n, !.from[n][f] = ""]
    /\ budget' = budget - 1
    /\ UNCHANGED <<plan, pc, handlers, plugins, rx, task, web, proc, now, script, loops>>

\* the debounce of a report is over: handle_event sends "p nas file_modify",
\* handle_cmd_file_modify puts the file to its targets; a folder that
\* /upload has written has a report pending
WatcherReport(e) ==
    LET Local == FolderOf(e.node)
        After(t) == IF t \in PutTargets(e.node)
                    THEN put_file(Local, FolderOf(t), e.filename)
                    ELSE FolderOf(t)
        Sent(t) == t \in PutTargets(e.node) /\ UploadSent(Local, FolderOf(t), e.filename)
    IN  /\ e \in queue
        /\ srvFolder' = After("srv")
        /\ cliFolder' = [c \in FleetClients |-> After(c)]
        /\ queue' = (queue \ {e})
                      \cup {[node |-> t, filename |-> e.filename] :
                              t \in {u \in PutTargets(e.node) : After(u) # FolderOf(u)}}
        /\ hist' = [hist EXCEPT
              !.reports = @ + 1,
              !.uploads = [t \in Fleet |-> IF Sent(t) THEN @[t] + 1 ELSE @[t]],
              !.back = IF \E t \in Fleet : Sent(t) /\ t = hist.from[e.node][e.filename]
                       THEN @ + 1 ELSE @,
              !.from = [t \in Fleet |->
                          IF After(t) # FolderOf(t)
                          THEN [@[t] EXCEPT ![e.filename] = e.node] ELSE @[t]]]
        /\ UNCHANGED <<plan, pc, handlers, plugins, rx, task, web, proc, now, script,
                       budget, loops>>

NextBounce ==
    \/ LocalModify
    \/ \E e \in [node : Fleet, filename : FleetFiles] : WatcherReport(e)

SpecBounce == InitBounce /\ [][NextBounce]_vars

\* a debounce task that has been spawned fires, and the consumer routes the
\* command it sends
FairBounce ==
    SpecBounce /\ \A e \in [node : Fleet, filename : FleetFiles] : WF_vars(WatcherReport(e))

(* SpecMirror: the nas plugin and the infos plugin of one node, a client   *)
(* of srv or the server itself, after "p nas init <server>" has been       *)
(* handled and routed.  plugins.nas is the state of the nas plugin,        *)
(* plugins.infos what the infos plugin holds of it.                        *)

InfosOk(st) == [st |-> st, panic |-> FALSE]

InfosPanic(st) == [st |-> st, panic |-> TRUE]                      \* todo!()

NasStateWords == {<<"Unsync">>, <<"Syncing">>, <<"Synced">>, <<"Err">>}

\* an arm for nas_state that keeps the state of the node only
NasStateArmDropsPeer(st, parts) ==
    IF Len(parts) >= 6 THEN InfosOk(st)
    ELSE IF Len(parts) >= 5
    THEN IF parts[5] \in NasStateWords THEN InfosOk([st EXCEPT !.nas_state = parts[5][1]])
         ELSE InfosPanic(st)
    ELSE InfosOk(st)

\* plugin_infos::PluginUnit::handle_cmd_nas, the arm ACTION_NAS_STATE: with
\* a name and a state the state of the peer, with a state alone the state
\* of the node
infos_nas_state(st, parts) ==
    IF Len(parts) >= 6
    THEN IF parts[6] \notin NasStateWords THEN InfosPanic(st)
         ELSE LET i == FindNasInfo(st.nas_infos, parts[5])
              IN  IF i = 0 THEN InfosOk(st)
                  ELSE InfosOk([st EXCEPT !.nas_infos[i].nas_state = parts[6][1]])
    ELSE IF Len(parts) >= 5
    THEN IF parts[5] \in NasStateWords THEN InfosOk([st EXCEPT !.nas_state = parts[5][1]])
         ELSE InfosPanic(st)
    ELSE InfosOk(st)                                               \* a warning

\* plugin_infos::PluginUnit::handle_cmd_nas: "p infos nas <action> ..."
infos_handle_cmd_nas(st, parts) ==
    IF Len(parts) < 4 THEN InfosOk(st)
    ELSE CASE parts[4] = <<"onboard">> ->
                IF Len(parts) < 6 THEN InfosOk(st)
                ELSE LET i == FindNasInfo(st.nas_infos, parts[5])
                         onboard == parts[6] = <<"1">>
                     IN  IF i # 0
                         THEN InfosOk([st EXCEPT !.nas_infos[i].onboard = onboard])
                         ELSE InfosOk([st EXCEPT !.nas_infos =
                                  Append(@, [name |-> parts[5], onboard |-> onboard,
                                             nas_state |-> "Unsync",
                                             tailscale_ip |-> <<>>])])
           [] parts[4] = <<"nas_server">> ->
                IF Len(parts) < 5 THEN InfosOk(st)
                ELSE InfosOk([st EXCEPT !.nas_server = parts[5]])
           [] parts[4] = <<"nas_state">> -> infos_nas_state(st, parts)
           [] OTHER -> InfosOk(st)                                 \* a warning

\* the commands that reach the nas plugin: the reports of the devices
\* plugin, the states a client reports to the server, the states the loop
\* of a client sets
MirrorCmds ==
    { <<"p", " ", "nas", " ", "devices", " ", "onboard", " ", "srv", " ", "1">>,
      <<"p", " ", "nas", " ", "devices", " ", "onboard", " ", "srv", " ", "0">>,
      <<"p", " ", "nas", " ", "devices", " ", "tailscale_ip", " ", "srv", " ", "ip1">>,
      <<"p", " ", "nas", " ", "devices", " ", "onboard", " ", "c2", " ", "1">>,
      <<"p", " ", "nas", " ", "devices", " ", "onboard", " ", "c2", " ", "0">>,
      <<"p", " ", "nas", " ", "nas_state", " ", "c2", " ", "Syncing">>,
      <<"p", " ", "nas", " ", "nas_state", " ", "c2", " ", "Synced">>,
      <<"p", " ", "nas", " ", ACTION_SELF_NAS_STATE, " ", "Syncing">>,
      <<"p", " ", "nas", " ", ACTION_SELF_NAS_STATE, " ", "Synced">> }

InitMirror ==
    /\ \E server \in {NasServer, CfgName} :
          plugins = [nas |-> [InitPlugins EXCEPT !.nas_inited = TRUE,
                                                 !.nas_server = server],
                     infos |-> [nas_server |-> server, nas_state |-> "Unsync",
                                nas_infos |-> <<>>]]
    /\ hist = [routed |-> 0]
    /\ queue = <<>>
    /\ budget = MaxMirrorCmds
    /\ proc = "running" /\ now = 1
    /\ srvFolder = EmptyFolder /\ cliFolder = EmptyFolder /\ plan = PlanIdle
    /\ pc = "idle" /\ handlers = <<>> /\ rx = <<>> /\ task = <<>> /\ web = "idle"
    /\ script = [found |-> FALSE, lines |-> <<>>] /\ loops = <<>>

\* a command for the nas plugin enters the channel
MirrorSend ==
    /\ proc = "running"
    /\ budget > 0
    /\ Len(queue) < MaxMirrorQueue
    /\ \E cmd \in MirrorCmds :
          queue' = Append(queue, Entry(CmdMsg(now, "devices", cmd), "devices", 0, NoOrigin))
    /\ budget' = budget - 1
    /\ UNCHANGED <<srvFolder, cliFolder, plan, pc, handlers, plugins, rx, task, web, proc,
                   now, script, loops, hist>>

\* the consumer routes the oldest message: a command of the nas plugin, whose
\* handler sends its commands to the infos plugin, or a command of the infos
\* plugin; a log line changes no state
MirrorRoute ==
    /\ proc = "running"
    /\ queue # <<>>
    /\ LET m == Head(queue).msg
           parts == IF m.data.kind = "Cmd" THEN shell_split(m.data.cmd).parts ELSE <<>>
       IN  IF Len(parts) >= 2 /\ parts[2] = <<"nas">>
           THEN LET r == nas_handle_cmd(plugins.nas, m, parts)
                IN  /\ plugins' = [plugins EXCEPT !.nas = r.st]
                    /\ proc' = IF r.kind = "panic" THEN "panic" ELSE proc
                    /\ queue' = Tail(queue) \o Entries(r.out, "nas", 0, NoOrigin)
           ELSE IF Len(parts) >= 3 /\ parts[2] = <<"infos">> /\ parts[3] = <<"nas">>
           THEN LET r == infos_handle_cmd_nas(plugins.infos, parts)
                IN  /\ plugins' = [plugins EXCEPT !.infos = r.st]
                    /\ proc' = IF r.panic THEN "panic" ELSE proc
                    /\ queue' = Tail(queue)
           ELSE /\ queue' = Tail(queue)
                /\ UNCHANGED <<plugins, proc>>
    /\ hist' = [routed |-> IF hist.routed < MaxMirrorCmds THEN hist.routed + 1
                           ELSE hist.routed]
    /\ UNCHANGED <<srvFolder, cliFolder, plan, pc, handlers, rx, task, web, now, script,
                   budget, loops>>

NextMirror == MirrorSend \/ MirrorRoute

SpecMirror == InitMirror /\ [][NextMirror]_vars

----------------------------------------------------------------------------
(* SpecCli: the prompt of the cli plugin in GUI mode (plugin_cli.rs): the   *)
(* edit buffer output, history and history_index, worked on by the key     *)
(* loop and by handle_cmd_arrow.                                           *)

CliChars == {"a", "b"}

CliKeys == CliChars \cup {"Backspace", "Enter"}

CliOut(st, out) == [st |-> st, out |-> out]

\* the prompt line sent to the panel after a key
PromptUpdate(st, output) == output_update_gui_simple(st.gui_panel, <<">", " ">> \o output)

\* start_input_loop_gui, KeyCode::Enter
KeyEnter(st) ==
    LET pushes == st.history = <<>> \/ st.history[Len(st.history)] # st.output
        history == IF pushes THEN Append(st.history, st.output) ELSE st.history
    IN  CliOut([st EXCEPT !.history = history,
                          !.history_index = IF pushes THEN Len(history) ELSE @,
                          !.output = <<>>],
               <<CmdMsg(now, "cli", st.output), PromptUpdate(st, <<>>)>>)

\* start_input_loop_gui: the arms of a key without modifier that work on
\* the edit buffer
start_input_loop_gui(st, key) ==
    CASE key = "Enter" -> KeyEnter(st)
      [] key = "Backspace" ->
           LET output == SubSeq(st.output, 1, Len(st.output) - 1)
           IN  CliOut([st EXCEPT !.output = output], <<PromptUpdate(st, output)>>)
      [] OTHER ->
           LET output == Append(st.output, key)
           IN  CliOut([st EXCEPT !.output = output], <<PromptUpdate(st, output)>>)

\* plugin_cli::PluginUnit::handle_cmd_arrow for "p cli arrow <arrow>"
cli_handle_cmd_arrow(st, arrow) ==
    CASE arrow = "up" ->
           LET st1 == IF st.history_index > 0
                      THEN [st EXCEPT !.history_index = @ - 1,
                                      !.output = st.history[st.history_index]]
                      ELSE st
           IN  CliOut(st1, <<PromptUpdate(st, st1.output)>>)
      [] arrow = "down" ->
           LET st1 == IF st.history_index < Len(st.history)
                      THEN [st EXCEPT !.history_index = @ + 1,
                                      !.output = IF st.history_index + 1 < Len(st.history)
                                                 THEN st.history[st.history_index + 2]
                                                 ELSE <<>>]
                      ELSE st
           IN  CliOut(st1, <<PromptUpdate(st, st1.output)>>)
      [] OTHER -> CliOut(st, <<>>)

InitCli ==
    /\ plugins = [output |-> <<>>, history |-> <<>>, history_index |-> 0,
                  gui_panel |-> <<"command">>]
    /\ hist = [key |-> "none", before |-> <<>>]
    /\ queue = <<>>
    /\ budget = MaxKeys
    /\ proc = "running" /\ now = 1
    /\ srvFolder = EmptyFolder /\ cliFolder = EmptyFolder /\ plan = PlanIdle
    /\ pc = "idle" /\ handlers = <<>> /\ rx = <<>> /\ task = <<>> /\ web = "idle"
    /\ script = [found |-> FALSE, lines |-> <<>>] /\ loops = <<>>

\* the prompt after the step r of key, the messages of r sent
CliStep(key, r) ==
    /\ budget > 0
    /\ plugins' = r.st
    /\ queue' = queue \o [i \in 1..Len(r.out) |-> Entry(r.out[i], "cli", 0, NoOrigin)]
    /\ hist' = [key |-> key, before |-> plugins]
    /\ budget' = budget - 1
    /\ UNCHANGED <<srvFolder, cliFolder, plan, pc, handlers, rx, task, web, proc, now,
                   script, loops>>

\* the key loop receives a key
CliKey == \E key \in CliKeys : CliStep(key, start_input_loop_gui(plugins, key))

\* the plugin handles the arrow command the panels plugin passed on
CliArrow == \E arrow \in {"up", "down"} : CliStep(arrow, cli_handle_cmd_arrow(plugins, arrow))

NextCli == CliKey \/ CliArrow

SpecCli == InitCli /\ [][NextCli]_vars

----------------------------------------------------------------------------
(* The MQTT plugin (plugin_mqtt.rs): start_mqtt, the receive task it       *)
(* spawns, the restart after a poll error.                                 *)

\* seconds between the disconnect after a poll error and the restart command
RESTART_DELAY == 60

\* utils::output_push: a panel command in GUI mode, a Log in CLI mode
output_push(module, mode, gui_panel, level, output) ==
    IF mode = "ModeGui"
    THEN CmdMsg(now, module,
                <<"p", " ", "panels", " ", "output_push", " ">> \o gui_panel
                \o <<" ", "'", ts_str(now), " ", "[" \o level \o "]", " ">> \o output
                \o <<"'">>)
    ELSE LogMsg(now, module, level, output)

\* the PluginUnit of PluginUnit::new; client: the task whose client the
\* plugin holds, 0 for None
MqttUnit == [started |-> FALSE, mode |-> "ModeGui", gui_panel |-> <<>>, client |-> 0]

\* the task start_mqtt spawns, with its clones of mode and gui_panel and the
\* receiver handle_cmd subscribed for it
MqttTask(mode, gui_panel) ==
    [pc |-> "receive", mode |-> mode, gui_panel |-> gui_panel, rx |-> 0,
     shoutdown_flag |-> FALSE, err |-> 0, due |-> 0]

MqttStepLog(st, n, text) ==
    output_push("mqtt", st.mode, st.gui_panel, "INFO",
                <<"[mqtt]", " ", ToString(n) \o "/5:", " ", text>>)

MqttOut(st, out, tasks) == [st |-> st, out |-> out, tasks |-> tasks]

\* start_mqtt: steps 1 to 4 and the spawn of the task that runs step 5
start_mqtt(st, tasks) ==
    MqttOut([st EXCEPT !.client = Len(tasks) + 1],
            <<MqttStepLog(st, 1, "Initialization"),
              MqttStepLog(st, 2, "Establish connection"),
              MqttStepLog(st, 3, "Subscribe"),
              MqttStepLog(st, 4, "Publish")>>,
            Append(tasks, MqttTask(st.mode, st.gui_panel)))

\* handle_cmd_init
mqtt_handle_cmd_init(st, tasks, cmd_parts, cmd) ==
    IF Len(cmd_parts) < 4
    THEN MqttOut(st, <<LogMsg(now, "mqtt", "WARN",
                        <<"[mqtt]", " ", "Missing mode for cmd ", Backtick>> \o cmd
                        \o <<Backtick, ".">>)>>, tasks)
    ELSE LET mode == cmd_parts[4]
         IN  CASE mode = <<"gui">> ->
                    IF st.started /\ st.mode = "ModeGui"
                    THEN MqttOut(st, <<LogMsg(now, "mqtt", "WARN",
                                        <<"[mqtt]", " ", "Started and GUI mode already. Ignore.">>)>>,
                                 tasks)
                    ELSE IF Len(cmd_parts) >= 5
                    THEN LET st2 == [st EXCEPT !.started = TRUE, !.mode = "ModeGui",
                                               !.gui_panel = cmd_parts[5]]
                             r == start_mqtt(st2, tasks)
                         IN  MqttOut(r.st,
                                     <<LogMsg(now, "mqtt", "INFO",
                                         <<"[mqtt]", " ", "init gui mode (panel: ", Backtick>>
                                         \o cmd_parts[5] \o <<Backtick, ")">>)>> \o r.out,
                                     r.tasks)
                    ELSE start_mqtt(st, tasks)
               [] mode = <<"cli">> ->
                    IF st.started /\ st.mode = "ModeCli"
                    THEN MqttOut(st, <<LogMsg(now, "mqtt", "WARN",
                                        <<"[mqtt]", " ", "Started and CLI mode already. Ignore.">>)>>,
                                 tasks)
                    ELSE LET st2 == [st EXCEPT !.started = TRUE, !.mode = "ModeCli"]
                             r == start_mqtt(st2, tasks)
                         IN  MqttOut(r.st,
                                     <<LogMsg(now, "mqtt", "INFO",
                                         <<"[mqtt]", " ", "init cli mode">>)>> \o r.out,
                                     r.tasks)
               [] OTHER ->
                    MqttOut(st, <<LogMsg(now, "mqtt", "WARN",
                                    <<"[mqtt]", " ", "Unknown mode (">> \o mode
                                    \o <<") for cmd ", Backtick>> \o cmd \o <<Backtick, ".">>)>>,
                            tasks)

\* handle_cmd_publish and publish: "tln/<name>/<key>" with the client of the
\* plugin; a key holding '/' does not match the pattern of the topic
mqtt_handle_cmd_publish(st, tasks, cmd_parts) ==
    IF Len(cmd_parts) < 6 \/ st.client = 0 \/ IndexOf(cmd_parts[5], "/", 1) # 0
    THEN MqttOut(st, <<>>, tasks)
    ELSE MqttOut(st,
                 <<output_push("mqtt", st.mode, st.gui_panel, "INFO",
                               <<"[mqtt]", " ", "->", " ", "pub::">> \o cmd_parts[5]
                               \o <<" ">> \o CfgName \o <<" ">> \o cmd_parts[6])>>,
                 tasks)

\* PluginUnit::handle_cmd, arm "restart"
mqtt_handle_cmd_restart(st, tasks) == start_mqtt(st, tasks)

\* PluginUnit::handle_cmd of the mqtt plugin
mqtt_handle_cmd(st, tasks, m) ==
    LET cmd == m.data.cmd
        sp  == shell_split(cmd)
        cmd_parts == sp.parts
    IN  IF Len(cmd_parts) < 3
        THEN MqttOut(st, <<MissingAction("mqtt", "WARN", cmd)>>, tasks)
        ELSE LET action == cmd_parts[3]
             IN  CASE action = <<"init">> -> mqtt_handle_cmd_init(st, tasks, cmd_parts, cmd)
                   [] action = <<"restart">> -> mqtt_handle_cmd_restart(st, tasks)
                   [] action = <<"show">> ->
                        MqttOut(st, <<LogMsg(now, "mqtt", "INFO", <<"[mqtt]", " ", "show">>)>>,
                                tasks)
                   [] action = <<"publish">> -> mqtt_handle_cmd_publish(st, tasks, cmd_parts)
                   [] action = <<"arrow">> -> MqttOut(st, <<>>, tasks)
                   [] OTHER -> MqttOut(st, <<UnknownAction("mqtt", "WARN", action, cmd)>>, tasks)

\* the commands that reach the bus from the init script and the prompt
MqttCmds ==
    { <<"p", " ", "mqtt", " ", "init", " ", "cli">>,
      <<"p", " ", "mqtt", " ", "init", " ", "gui", " ", "main">>,
      <<"exit">> }

InitMqtt ==
    /\ plugins = MqttUnit
    /\ loops = <<>>
    /\ queue = <<>>
    /\ rx = [web |-> 0]
    /\ web = "running"
    /\ proc = "running" /\ now = 0
    /\ budget = MaxMqttCmds
    /\ hist = [shutdownSent |-> 0, errors |-> 0, starts |-> 0, restarts |-> 0,
               last |-> "none", task |-> 0]
    /\ plan = [stop_due |-> 0]
    /\ srvFolder = EmptyFolder /\ cliFolder = EmptyFolder
    /\ pc = "idle" /\ handlers = <<>> /\ task = <<>>
    /\ script = [found |-> FALSE, lines |-> <<>>]

\* a command is sent to the bus, once the bus has handled what it held
MqttUser ==
    /\ proc = "running"
    /\ queue = <<>>
    /\ budget > 0
    /\ \E cmd \in MqttCmds :
        queue' = Append(queue, Entry(CmdMsg(now, "cli", cmd), "main", 0, NoOrigin))
    /\ budget' = budget - 1
    /\ hist' = [hist EXCEPT !.last = "user", !.task = 0]
    /\ UNCHANGED <<srvFolder, cliFolder, plan, pc, handlers, plugins, rx, task, web, proc,
                   now, script, loops>>

\* shutdown_notify.send(()) as the receivers of the mqtt tasks see it
BroadcastTasks(tasks) ==
    [k \in DOMAIN tasks |->
        IF tasks[k].pc = "done" \/ tasks[k].rx > SHUTDOWN_CAP THEN tasks[k]
        ELSE [tasks[k] EXCEPT !.rx = @ + 1]]

\* the consumer takes the oldest message: a command of the mqtt plugin is
\* handled by it, exit signals shutdown, the messages of the other plugins
\* leave the channel
MqttConsume ==
    /\ proc = "running"
    /\ queue # <<>>
    /\ LET m == queue[1].msg
           rest == Tail(queue)
           cmd_parts == IF m.data.kind = "Cmd"
                        THEN split_whitespace(StripComment(m.data.cmd)) ELSE <<>>
           command == IF cmd_parts = <<>> THEN <<>> ELSE cmd_parts[1]
       IN  IF command \in {<<"exit">>, <<"q">>, <<"quit">>}
           THEN /\ rx' = Broadcast(rx)
                /\ loops' = BroadcastTasks(loops)
                /\ queue' = rest
                /\ plugins' = plugins
                /\ hist' = [hist EXCEPT !.shutdownSent = @ + 1, !.last = "shutdown",
                                        !.task = 0]
           ELSE IF command = <<"p">> /\ Len(cmd_parts) >= 2 /\ cmd_parts[2] = <<"mqtt">>
           THEN LET r == mqtt_handle_cmd(plugins, loops, m)
                    started == Len(r.tasks) > Len(loops)
                    restart == Len(cmd_parts) >= 3 /\ cmd_parts[3] = <<"restart">>
                IN  /\ plugins' = r.st
                    /\ loops' = r.tasks
                    /\ queue' = rest \o Entries(r.out, "mqtt", 0, NoOrigin)
                    /\ rx' = rx
                    /\ hist' = [hist EXCEPT !.starts = IF started THEN @ + 1 ELSE @,
                                            !.last = IF restart THEN "restart" ELSE "cmd",
                                            !.task = IF started THEN Len(r.tasks) ELSE 0]
           ELSE /\ queue' = rest
                /\ hist' = [hist EXCEPT !.last = "other", !.task = 0]
                /\ UNCHANGED <<plugins, loops, rx>>
    /\ UNCHANGED <<srvFolder, cliFolder, plan, pc, handlers, task, web, proc, now, script,
                   budget>>

MqttTaskPush(t, level, text) ==
    output_push("mqtt", t.mode, t.gui_panel, level, <<"[mqtt]", " ", text>>)

\* what a step of the task k leaves: the task, the messages sent, the name
\* of the step
MqttTaskStep(k, t, out, name) ==
    /\ proc = "running"
    /\ loops' = [loops EXCEPT ![k] = t]
    /\ queue' = queue \o Entries(out, "mqtt", 0, NoOrigin)
    /\ hist' = [hist EXCEPT !.last = name, !.task = k,
                            !.errors = IF name = "error" THEN @ + 1 ELSE @,
                            !.restarts = IF name = "wake" THEN @ + 1 ELSE @]
    /\ UNCHANGED <<srvFolder, cliFolder, plan, pc, handlers, plugins, rx, task, web, proc,
                   now, script, budget>>

\* the spawned task: step 5 and the entry of the select loop
MqttReceive ==
    \E k \in DOMAIN loops :
        /\ loops[k].pc = "receive"
        /\ MqttTaskStep(k, [loops[k] EXCEPT !.pc = "poll"],
                        <<MqttTaskPush(loops[k], "INFO", "5/5: Receive")>>, "receive")

\* the task after `if !shoutdown_flag`: the sleep of RESTART_DELAY seconds
SleepRestartDelay(t) == [t EXCEPT !.pc = "sleep", !.err = now, !.due = now + RESTART_DELAY]

\* select: connection.poll() returns Err; process_event logs it and returns
\* true, the loop breaks, the task disconnects and starts its sleep
MqttPollError ==
    \E k \in DOMAIN loops :
        /\ loops[k].pc = "poll"
        /\ hist.errors < MaxPollErrors
        /\ MqttTaskStep(k, SleepRestartDelay(loops[k]),
                        <<MqttTaskPush(loops[k], "WARN", "Event loop error"),
                          MqttTaskPush(loops[k], "INFO", "Disconnect")>>, "error")

\* select: shutdown_rx.recv() returns; the loop breaks with the flag set and
\* the task disconnects and ends
MqttShutdownRecv ==
    \E k \in DOMAIN loops :
        /\ loops[k].pc = "poll"
        /\ loops[k].rx >= 1
        /\ MqttTaskStep(k, [loops[k] EXCEPT !.pc = "done", !.shoutdown_flag = TRUE,
                                            !.rx = @ - 1],
                        <<MqttTaskPush(loops[k], "INFO", "Disconnect")>>, "shutdown_recv")

\* "p mqtt restart cli" or "p mqtt restart gui <panel>"
RestartCmd(t) ==
    CmdMsg(now, "mqtt",
           <<"p", " ", "mqtt", " ", "restart", " ">>
           \o (IF t.mode = "ModeCli" THEN <<"cli">> ELSE <<"gui", " ">> \o t.gui_panel))

\* the sleep is over: the task sends the restart command and ends
MqttWake ==
    \E k \in DOMAIN loops :
        /\ loops[k].pc = "sleep"
        /\ now >= loops[k].due
        /\ MqttTaskStep(k, [loops[k] EXCEPT !.pc = "done"], <<RestartCmd(loops[k])>>, "wake")

\* Web::run, shutdown_task: recv() is Ok and handle.stop(true) starts the
\* graceful stop of the server, which lasts MaxStopSecs seconds at most;
\* recv() is Err(Lagged) and the server is left running
MqttWebShutdownTask ==
    /\ proc = "running"
    /\ web = "running"
    /\ rx["web"] >= 1
    /\ web' = IF rx["web"] <= SHUTDOWN_CAP THEN "stopping" ELSE "lagged"
    /\ rx' = [rx EXCEPT !["web"] = @ - 1]
    /\ plan' = [stop_due |-> now + MaxStopSecs]
    /\ UNCHANGED <<srvFolder, cliFolder, queue, pc, handlers, plugins, task, proc, now,
                   script, budget, loops, hist>>

\* the server has stopped: try_join! returns, main returns Ok(()) and the
\* process ends with its tasks
MqttMainReturn ==
    /\ proc = "running"
    /\ web = "stopping"
    /\ proc' = "exit0"
    /\ UNCHANGED <<srvFolder, cliFolder, plan, queue, pc, handlers, plugins, rx, task, web,
                   now, script, budget, loops, hist>>

\* the clock advances by MqttStep seconds, in which the consumer has emptied
\* the channel and the shutdown task of the server has received the signal;
\* a sleep that is over wakes its task first, and a server that is stopping
\* has stopped by stop_due
MqttTick ==
    /\ proc = "running"
    /\ queue = <<>>
    /\ ~(web = "running" /\ rx["web"] >= 1)
    /\ web = "stopping" => now + MqttStep <= plan.stop_due
    /\ now + MqttStep <= MaxMqttTs
    /\ \A k \in DOMAIN loops : loops[k].pc = "sleep" => now + MqttStep <= loops[k].due
    /\ now' = now + MqttStep
    /\ hist' = [hist EXCEPT !.last = "tick", !.task = 0]
    /\ UNCHANGED <<srvFolder, cliFolder, plan, queue, pc, handlers, plugins, rx, task, web,
                   proc, script, budget, loops>>

NextMqtt ==
    \/ MqttUser
    \/ MqttConsume
    \/ MqttReceive
    \/ MqttPollError
    \/ MqttShutdownRecv
    \/ MqttWake
    \/ MqttTick
    \/ MqttWebShutdownTask
    \/ MqttMainReturn

SpecMqtt == InitMqtt /\ [][NextMqtt]_vars

----------------------------------------------------------------------------
(* Publishes received by the mqtt task (plugin_mqtt.rs, process_event) and *)
(* the devices plugin (plugin_devices.rs).                                 *)

\* Option: None is the empty sequence, Some(v) is <<v>>
DevNone == <<>>

DevSome(v) == <<v>>

\* the DevInfo handle_cmd_onboard adds for a name it sees for the first time
DevInfoNew(ts, name, onboard) ==
    [ts |-> ts, name |-> name, onboard |-> onboard, version |-> DevNone,
     tailscale_ip |-> DevNone, temperature |-> DevNone]

\* devices.iter().position(|device| device.name == *name), 0 when there is none
FindDevice(devices, name) ==
    IF \E i \in 1..Len(devices) : devices[i].name = name
    THEN CHOOSE i \in 1..Len(devices) :
            /\ devices[i].name = name
            /\ \A j \in 1..(i - 1) : devices[j].name # name
    ELSE 0

\* utils::onboard_str
onboard_str(onboard) == IF onboard THEN "on" ELSE "off"

\* what a handler of the devices plugin leaves: the plugin, the messages it
\* sent, whether it panicked
DevOut(st, out) == [st |-> st, out |-> out, panic |-> FALSE]

DevPanic(st) == [st |-> st, out |-> <<>>, panic |-> TRUE]

\* "p <plugin> devices <key> <name> <value>"
DevicesCmd(plugin, key, name, value) ==
    CmdMsg(now, "devices",
           <<"p", " ", plugin, " ", "devices", " ", key, " ">> \o name \o <<" ">> \o value)

\* "p system publish"
SystemPublishCmd == CmdMsg(now, "devices", <<"p", " ", "system", " ", "publish">>)

\* a handler that asks for a publish on every change of the onboard bit
OnboardPublishesOnChange(st, cmd_parts) ==
    IF Len(cmd_parts) < 5 THEN DevOut(st, <<>>)
    ELSE LET name == cmd_parts[4]
             onbard_str == cmd_parts[5]
             onboard == onbard_str = <<"1">>
             i == FindDevice(st.devices, name)
             changed == IF i # 0 THEN onboard # st.devices[i].onboard ELSE TRUE
             devices == IF i # 0
                        THEN [st.devices EXCEPT ![i].ts = now, ![i].onboard = onboard]
                        ELSE Append(st.devices, DevInfoNew(now, name, onboard))
         IN  DevOut([st EXCEPT !.devices = devices],
                    (IF changed
                     THEN <<LogMsg(now, "devices", "INFO",
                              <<"[devices]", " ">> \o name
                              \o <<" ", onboard_str(onboard), " ", "at", " ", ts_str(now)>>)>>
                          \o <<SystemPublishCmd>>
                     ELSE <<>>)
                    \o <<DevicesCmd("infos", "onboard", name, onbard_str),
                         DevicesCmd("nas", "onboard", name, onbard_str)>>)

\* handle_cmd_onboard
devices_handle_cmd_onboard(st, cmd_parts) ==
    IF Len(cmd_parts) < 5 THEN DevOut(st, <<>>)
    ELSE LET name == cmd_parts[4]
             onbard_str == cmd_parts[5]
             onboard == onbard_str = <<"1">>
             i == FindDevice(st.devices, name)
             changed == IF i # 0 THEN onboard # st.devices[i].onboard ELSE TRUE
             devices == IF i # 0
                        THEN [st.devices EXCEPT ![i].ts = now, ![i].onboard = onboard]
                        ELSE Append(st.devices, DevInfoNew(now, name, onboard))
         IN  DevOut([st EXCEPT !.devices = devices],
                    (IF changed
                     THEN <<LogMsg(now, "devices", "INFO",
                              <<"[devices]", " ">> \o name
                              \o <<" ", onboard_str(onboard), " ", "at", " ", ts_str(now)>>)>>
                          \o (IF onboard THEN <<SystemPublishCmd>> ELSE <<>>)
                     ELSE <<>>)
                    \o <<DevicesCmd("infos", "onboard", name, onbard_str),
                         DevicesCmd("nas", "onboard", name, onbard_str)>>)

\* handle_cmd_version
devices_handle_cmd_version(st, cmd_parts) ==
    IF Len(cmd_parts) < 5 THEN DevOut(st, <<>>)
    ELSE LET name == cmd_parts[4]
             version == cmd_parts[5]
             i == FindDevice(st.devices, name)
         IN  IF i = 0 THEN DevOut(st, <<>>)
             ELSE DevOut([st EXCEPT !.devices[i].ts = now,
                                    !.devices[i].version = DevSome(version)],
                         <<DevicesCmd("infos", "version", name, version)>>)

\* handle_cmd_tailscale_ip
devices_handle_cmd_tailscale_ip(st, cmd_parts) ==
    IF Len(cmd_parts) < 5 THEN DevOut(st, <<>>)
    ELSE LET name == cmd_parts[4]
             tailscale_ip == cmd_parts[5]
             i == FindDevice(st.devices, name)
         IN  IF i = 0 THEN DevOut(st, <<>>)
             ELSE DevOut([st EXCEPT !.devices[i].ts = now,
                                    !.devices[i].tailscale_ip = DevSome(tailscale_ip)],
                         <<DevicesCmd("infos", "tailscale_ip", name, tailscale_ip),
                           DevicesCmd("nas", "tailscale_ip", name, tailscale_ip)>>)

\* str::parse::<f32> is Ok
IsF32(word) == word \in {<<"0">>, <<"1">>, <<"36.5">>}

\* handle_cmd_temperature
devices_handle_cmd_temperature(st, cmd_parts) ==
    IF Len(cmd_parts) < 5 THEN DevOut(st, <<>>)
    ELSE LET name == cmd_parts[4]
             temperature == cmd_parts[5]
             i == FindDevice(st.devices, name)
         IN  IF i = 0 THEN DevOut(st, <<>>)
             ELSE IF ~IsF32(temperature) THEN DevPanic(st)     \* parse::<f32>().unwrap()
             ELSE DevOut([st EXCEPT !.devices[i].ts = now,
                                    !.devices[i].temperature = DevSome(temperature)],
                         <<DevicesCmd("infos", "temperature", name, temperature)>>)

\* the word of an Option<String>, "n/a" for None
OrNa(opt) == IF opt = DevNone THEN <<"n/a">> ELSE opt[1]

RECURSIVE ShowDevices(_, _)
\* handle_cmd_show: six lines for each device from the i-th on
ShowDevices(devices, i) ==
    IF i > Len(devices) THEN <<>>
    ELSE LET d == devices[i]
             line(words) == LogMsg(now, "devices", "INFO", <<"[devices]", " ">> \o words)
         IN  <<line(d.name),
               line(<<"    Last update: ", ts_str(d.ts)>>),
               line(<<"    Onboard: ", onboard_str(d.onboard)>>),
               line(<<"    Version: ">> \o OrNa(d.version)),
               line(<<"    IP: ">> \o OrNa(d.tailscale_ip)),
               line(<<"    Temperature: ">> \o OrNa(d.temperature))>>
             \o ShowDevices(devices, i + 1)

\* PluginUnit::handle_cmd of the devices plugin
devices_handle_cmd(st, m) ==
    LET cmd == m.data.cmd
        sp  == shell_split(cmd)
        cmd_parts == sp.parts
    IN  IF ~sp.ok THEN DevPanic(st)                 \* expect("Failed to parse cmd.")
        ELSE IF Len(cmd_parts) < 3
        THEN DevOut(st, <<MissingAction("devices", "WARN", cmd)>>)
        ELSE LET action == cmd_parts[3]
             IN  CASE action = <<"show">> -> DevOut(st, ShowDevices(st.devices, 1))
                   [] action = <<"onboard">> -> devices_handle_cmd_onboard(st, cmd_parts)
                   [] action = <<"version">> -> devices_handle_cmd_version(st, cmd_parts)
                   [] action = <<"tailscale_ip">> ->
                        devices_handle_cmd_tailscale_ip(st, cmd_parts)
                   [] action = <<"temperature">> ->
                        devices_handle_cmd_temperature(st, cmd_parts)
                   [] OTHER ->
                        DevOut(st, <<UnknownAction("devices", "WARN", action, cmd)>>)

RECURSIVE SplitAt(_, _, _, _, _)
\* the pieces of s between the separators sep
SplitAt(s, sep, i, piece, pieces) ==
    IF i > Len(s) THEN Append(pieces, piece)
    ELSE IF s[i] = sep THEN SplitAt(s, sep, i + 1, <<>>, Append(pieces, piece))
    ELSE SplitAt(s, sep, i + 1, Append(piece, s[i]), pieces)

\* Regex ^tln/([^/]+)/([^/]+)$ on the topic: the captures, <<>> for no match
TopicCaptures(topic) ==
    LET pieces == SplitAt(topic, "/", 1, <<>>, <<>>)
    IN  IF Len(pieces) = 3 /\ pieces[1] = <<"tln">> /\ pieces[2] # <<>> /\ pieces[3] # <<>>
        THEN <<pieces[2], pieces[3]>>
        ELSE <<>>

\* the keys process_event_publish forwards
ForwardedKeys ==
    {<<"onboard">>, <<"version">>, <<"tailscale_ip">>, <<"temperature">>, <<"app_uptime">>}

\* process_event_publish: the messages the mqtt task sends for a publish
process_event_publish(mode, gui_panel, topic, payload) ==
    LET captures == TopicCaptures(topic)
    IN  IF captures = <<>> THEN <<>>
        ELSE LET name == captures[1]
                 key == captures[2]
                 text == <<"[mqtt]", " ", "<-", " ", "pub::">> \o key \o <<" ">> \o name
                         \o <<" ">> \o payload
             IN  IF key \in ForwardedKeys
                 THEN <<output_push("mqtt", mode, gui_panel, "INFO", text),
                        CmdMsg(now, "mqtt",
                               <<"p", " ", "devices", " ">> \o key \o <<" ">> \o name
                               \o <<" ">> \o payload)>>
                 ELSE <<output_push("mqtt", mode, gui_panel, "WARN", text)>>

\* the peers heard on the broker: a name, and a name with a blank in it
DevPeers == {<<"c1">>, <<"my", " ", "pi">>}

\* the topics of the publishes: every forwarded key, a key that is not
\* forwarded, and a topic of four levels
DevTopics ==
    {<<"tln", "/">> \o peer \o <<"/">> \o key :
        peer \in DevPeers, key \in ForwardedKeys \cup {<<"zz">>}}
    \cup {<<"tln", "/", "c1", "/", "a", "/", "b">>}

\* the payloads: onboard bits, numbers, a word, a text with a quote
DevPayloads == {<<"1">>, <<"0">>, <<"36.5">>, <<"x">>, <<"it", "'", "s">>}

\* commands of the devices plugin sent from the prompt
DevUserCmds ==
    { <<"p", " ", "devices", " ", "show">>,
      <<"p", " ", "devices">> }

\* the publish an entry of the channel comes from
PublishOrigin(topic, payload) ==
    LET captures == TopicCaptures(topic)
    IN  [kind |-> "publish", topic |-> topic, payload |-> payload,
         peer |-> IF captures = <<>> THEN <<>> ELSE captures[1],
         key |-> IF captures = <<>> THEN <<>> ELSE captures[2]]

\* the last step: its kind, the publish it comes from, the command that was
\* handled, the plugin before it, the messages it sent, whether it panicked
DevHist(last, origin, cmd, before, out, panic) ==
    [last |-> last, origin |-> origin, cmd |-> cmd, before |-> before, out |-> out,
     panic |-> panic]

InitDev ==
    /\ plugins = [devices |-> <<>>]
    /\ queue = <<>>
    /\ budget = MaxPublishes
    /\ proc = "running" /\ now = 1
    /\ hist = DevHist("none", NoOrigin, <<>>, [devices |-> <<>>], <<>>, FALSE)
    /\ srvFolder = EmptyFolder /\ cliFolder = EmptyFolder /\ plan = PlanIdle
    /\ pc = "idle" /\ handlers = <<>> /\ rx = <<>> /\ task = <<>> /\ web = "idle"
    /\ script = [found |-> FALSE, lines |-> <<>>] /\ loops = <<>>

\* connection.poll() returns a publish: process_event hands it to
\* process_event_publish
DevPublish ==
    /\ proc = "running"
    /\ queue = <<>>
    /\ budget > 0
    /\ \E topic \in DevTopics, payload \in DevPayloads :
        LET out == process_event_publish("ModeCli", <<>>, topic, payload)
            origin == PublishOrigin(topic, payload)
        IN  /\ queue' = queue \o Entries(out, "mqtt", 0, origin)
            /\ hist' = DevHist("publish", origin, <<>>, plugins, out, FALSE)
    /\ budget' = budget - 1
    /\ UNCHANGED <<srvFolder, cliFolder, plan, pc, handlers, plugins, rx, task, web, proc,
                   now, script, loops>>

\* a command of the devices plugin is entered at the prompt
DevUser ==
    /\ proc = "running"
    /\ queue = <<>>
    /\ budget > 0
    /\ \E cmd \in DevUserCmds :
        queue' = Append(queue, Entry(CmdMsg(now, "cli", cmd), "main", 0, NoOrigin))
    /\ hist' = DevHist("user", NoOrigin, <<>>, plugins, <<>>, FALSE)
    /\ budget' = budget - 1
    /\ UNCHANGED <<srvFolder, cliFolder, plan, pc, handlers, plugins, rx, task, web, proc,
                   now, script, loops>>

\* the consumer takes the oldest message: a command of the devices plugin
\* goes through Plugins::handle_cmd to the plugin, the messages of the other
\* plugins leave the channel
DevConsume ==
    /\ proc = "running"
    /\ queue # <<>>
    /\ LET e == queue[1]
           m == e.msg
           rest == Tail(queue)
           words == IF m.data.kind = "Cmd"
                    THEN split_whitespace(StripComment(m.data.cmd)) ELSE <<>>
           routed == /\ Len(words) >= 2
                     /\ words[1] = <<"p">>
           sp == shell_split(m.data.cmd)
       IN  IF routed /\ ~sp.ok
           THEN /\ proc' = "panic"                  \* Plugins::handle_cmd, expect
                /\ queue' = rest
                /\ plugins' = plugins
                /\ hist' = DevHist("devices", e.origin, m.data.cmd, plugins, <<>>, TRUE)
           ELSE IF routed /\ Len(sp.parts) >= 2 /\ sp.parts[2] = <<"devices">>
           THEN LET r == devices_handle_cmd(plugins, m)
                IN  /\ plugins' = r.st
                    /\ proc' = IF r.panic THEN "panic" ELSE proc
                    /\ queue' = rest \o Entries(r.out, "devices", 0, e.origin)
                    /\ hist' = DevHist("devices", e.origin, m.data.cmd, plugins, r.out, r.panic)
           ELSE /\ queue' = rest
                /\ hist' = [hist EXCEPT !.last = "other"]
                /\ UNCHANGED <<plugins, proc>>
    /\ UNCHANGED <<srvFolder, cliFolder, plan, pc, handlers, rx, task, web, now, script,
                   budget, loops>>

\* the clock advances
DevTick ==
    /\ proc = "running"
    /\ now < MaxDevTs
    /\ now' = now + 1
    /\ UNCHANGED <<srvFolder, cliFolder, plan, queue, pc, handlers, plugins, rx, task, web,
                   proc, script, budget, loops, hist>>

NextDev == DevPublish \/ DevUser \/ DevConsume \/ DevTick

SpecDev == InitDev /\ [][NextDev]_vars

----------------------------------------------------------------------------
(* SpecSrv: the nas plugin of the server (plugin_nas.rs): the device       *)
(* events of the clients and of the server itself, and the states the      *)
(* clients report through POST /check_hash.                                *)

\* the commands the server handles: onboard bits of the client c2, of a
\* node c3 it has no NasInfo for and of itself, and the states c2 reports
SrvCmds ==
    { <<"p", " ", "nas", " ", "devices", " ", "onboard", " ", "c2", " ", "1">>,
      <<"p", " ", "nas", " ", "devices", " ", "onboard", " ", "c2", " ", "0">>,
      <<"p", " ", "nas", " ", "devices", " ", "onboard", " ", "c3", " ", "0">>,
      <<"p", " ", "nas", " ", "devices", " ", "onboard", " ">> \o CfgName \o <<" ", "1">>,
      <<"p", " ", "nas", " ", "devices", " ", "onboard", " ">> \o CfgName \o <<" ", "0">>,
      <<"p", " ", "nas", " ", "nas_state", " ", "c2", " ", "Syncing">>,
      <<"p", " ", "nas", " ", "nas_state", " ", "c2", " ", "Synced">> }

\* The server after "p nas init <its own name>" and the onboard publishes of
\* itself and of the client c2.
InitSrv ==
    /\ plugins = [InitPlugins EXCEPT
                    !.nas_inited = TRUE, !.nas_server = CfgName,
                    !.nas_infos = <<[name |-> CfgName, onboard |-> TRUE,
                                     nas_state |-> "Unsync", tailscale_ip |-> <<"ip0">>],
                                    [name |-> <<"c2">>, onboard |-> TRUE,
                                     nas_state |-> "Unsync", tailscale_ip |-> <<"ip2">>]>>]
    /\ hist = [cmd |-> <<>>, before |-> <<>>]
    /\ queue = <<>>
    /\ budget = MaxSrvCmds
    /\ proc = "running" /\ now = 1
    /\ srvFolder = EmptyFolder /\ cliFolder = EmptyFolder /\ plan = PlanIdle
    /\ pc = "idle" /\ handlers = <<>> /\ rx = <<>> /\ task = <<>> /\ web = "idle"
    /\ script = [found |-> FALSE, lines |-> <<>>] /\ loops = <<>>

\* the nas plugin handles a command; a panic ends the process
SrvCmd ==
    /\ proc = "running"
    /\ budget > 0
    /\ \E cmd \in SrvCmds :
          LET m == CmdMsg(now, "devices", cmd)
              r == nas_handle_cmd(plugins, m, shell_split(cmd).parts)
          IN  /\ plugins' = r.st
              /\ proc' = IF r.kind = "panic" THEN "panic" ELSE proc
              /\ queue' = queue \o Entries(r.out, "nas", 0, NoOrigin)
              /\ hist' = [cmd |-> shell_split(cmd).parts, before |-> plugins.nas_infos]
    /\ budget' = budget - 1
    /\ UNCHANGED <<srvFolder, cliFolder, plan, pc, handlers, rx, task, web, now, script,
                   loops>>

\* the consumer takes the oldest message, a command of the infos plugin
SrvDrain ==
    /\ proc = "running"
    /\ queue # <<>>
    /\ queue' = Tail(queue)
    /\ UNCHANGED <<srvFolder, cliFolder, plan, pc, handlers, plugins, rx, task, web, proc,
                   now, script, budget, loops, hist>>

NextSrv == SrvCmd \/ SrvDrain

SpecSrv == InitSrv /\ [][NextSrv]_vars

----------------------------------------------------------------------------
(* Properties.                                                             *)

\* a step of the consumer that dispatches the message at the head of the
\* channel while no routine is in progress
DispatchStep ==
    /\ pc = "select"
    /\ handlers = <<>>
    /\ queue # <<>>
    /\ Len(queue') = Len(queue) - 1

\* C2: after the plan computed from two lists with different hash_str has
\* been executed in order, the recomputed lists have the same hash_str.
C2_PlanConverges ==
    plan.pc = "applied" =>
        FileListNew(srvFolder).hash_str = FileListNew(cliFolder).hash_str

\* C1: the client becomes Synced only in handling the command a
\* reconciliation loop sent after a check_hash that returned 0, the hashes
\* of both lists being equal at that check.
C1_SyncedOnlyAfterMatch ==
    [][(plugins'.nas_state = "Synced" /\ plugins.nas_state # "Synced")
       => /\ DispatchStep
          /\ Head(queue).origin.kind = "check_hash"
          /\ Head(queue).origin.result = 0
          /\ Head(queue).origin.server = Head(queue).origin.client]_vars

\* the client is Synced after a pass that transferred a file
C1_Witness ==
    /\ plugins.nas_state = "Synced"
    /\ hist.lastOrigin.kind = "check_hash"
    /\ \E n \in Names : IsFile(srvFolder, n) /\ IsFile(cliFolder, n)

\* "p nas devices onboard srv 0"
ServerOffboardCmd ==
    <<"p", " ", "nas", " ", "devices", " ", "onboard", " ", "srv", " ", "0">>

\* C3: whenever the client handles an Offboard event of the NAS server, its
\* state afterwards is Unsync.
C3_OffboardLeadsToUnsync ==
    [][(DispatchStep /\ Head(queue).msg.data.cmd = ServerOffboardCmd)
       => plugins'.nas_state = "Unsync"]_vars

\* the reconciliation loops running on the client
RunningLoops == SelectSeq(loops, LAMBDA l : l.kind = "loop")

\* C4: at most one reconciliation loop runs on a client at any time.
C4_AtMostOneLoop == Len(RunningLoops) <= 1

\* C5: once the consumer has signalled shutdown (a command whose first
\* token is exit, quit or q), it routes no further message to any plugin.
C5_NoRoutingAfterShutdown ==
    [][hist.shutdownSent >= 1 => hist'.routed = hist.routed]_vars

\* C6: after the shutdown broadcast every long-lived task eventually exits
\* so that the process terminates; read here in its weakest form, the
\* process stops running.
C6_ShutdownTerminates == (hist.shutdownSent >= 1) ~> (proc # "running")

\* C7: the consumer routes messages strictly in the order they entered the
\* channel, so the messages of one producer are routed in the order that
\* producer sent them.
C7_RoutedInEnqueueOrder ==
    [][hist'.lastEid # hist.lastEid =>
         /\ hist'.lastEid = hist.lastEid + 1
         /\ \A p \in ProducerIds :
               hist'.lastN[p] # hist.lastN[p] => hist'.lastN[p] = hist.lastN[p] + 1]_vars

\* messages of the web server and of the router have been routed, several
\* of the router's
C7_Witness ==
    /\ hist.lastN["web"] >= 1
    /\ hist.lastN["router"] >= 2
    /\ hist.lastEid >= 4

\* C8: no two routines dispatched by the consumer overlap, and
\* plugin state changes in no step but a dispatch of the consumer.
C8_OnlyHandlersTouchPlugins ==
    /\ [](Len(handlers) <= 1)
    /\ [][plugins' # plugins => DispatchStep]_vars

\* the plugin state but for the prompt buffer of the cli plugin
OwnedByHandlers(st) == [st EXCEPT !.cli_output = <<>>]

\* C8 but for the prompt buffer: no two routines dispatched by the consumer overlap, and
\* plugin state other than the prompt buffer the cli plugin shares with its
\* key reader changes in no step but a dispatch of the consumer.
C8_SerialHandlers ==
    /\ [](Len(handlers) <= 1)
    /\ [][OwnedByHandlers(plugins') # OwnedByHandlers(plugins) => DispatchStep]_vars

\* a routine is still sending while the key reader has edited the prompt
C8_Witness ==
    /\ Len(handlers) = 1
    /\ pc = "await"
    /\ plugins.cli_output # <<>>
    /\ hist.routed >= 2

\* C9: a drained Log is re-emitted as one command for the log plugin with
\* the same ts and module, and the log plugin handles it with the level and
\* the text of the Log.
C9_LogReachesLogPlugin ==
    hist.lastOrigin.kind = "Log" =>
        /\ hist.lastLog # NoLog
        /\ hist.lastLog.ts = hist.lastOrigin.ts
        /\ hist.lastLog.module = hist.lastOrigin.module
        /\ hist.lastLog.level = <<hist.lastOrigin.level>>
        /\ hist.lastLog.text = hist.lastOrigin.msg

RECURSIVE FirstNonBlank(_, _)
\* the first character of s from index i on that is no blank, "" if none
FirstNonBlank(s, i) ==
    IF i > Len(s) THEN "" ELSE IF s[i] = " " THEN FirstNonBlank(s, i + 1) ELSE s[i]

\* the text is empty, blank, or its first non-blank character is '#'
IsBlankOrComment(text) == FirstNonBlank(text, 1) \in {"", "#"}

\* C10: draining a command that is empty, blank or a comment invokes no
\* plugin handler, signals no shutdown and sends no message.
C10_BlankOrCommentIsNoOp ==
    [][(/\ pc = "select"
        /\ queue # <<>>
        /\ Len(queue') = Len(queue) - 1
        /\ Head(queue).msg.data.kind = "Cmd"
        /\ IsBlankOrComment(Head(queue).msg.data.cmd))
       => /\ hist'.routed = hist.routed
          /\ hist'.shutdownSent = hist.shutdownSent
          /\ hist'.nextEid = hist.nextEid
          /\ hist'.issued = hist.issued
          /\ handlers' = handlers
          /\ plugins' = plugins
          /\ proc' = proc
          /\ task' = task
          /\ pc' = "select"]_vars

\* a comment line holding the word exit has been drained and the consumer
\* is back at its select
C10_Witness ==
    /\ hist.last.data.kind = "Cmd"
    /\ hist.last.data.cmd = <<" ", "#", "exit">>
    /\ pc = "select"
    /\ hist.shutdownSent = 0

\* the actions the match in each plugin's handle_cmd names
KnownActions(name) ==
    CASE name = "log" -> {"log", "gui"}
      [] name = "scripts" -> {"init", "show"}
      [] name = "cli" -> {"init", "arrow"}
      [] name = "system" -> {"show", "publish"}
      [] name = "weather" -> {"init", "show", "update", "update_item", "add"}
      [] name = "nas" ->
            {"show", "init", "devices", "nas_state", "file_modify", "file_remove",
             ACTION_SELF_NAS_STATE}
      [] OTHER -> OtherActions(name)

\* the words of the command at the head of the channel
HeadParts == shell_split(Head(queue).msg.data.cmd).parts

\* the consumer dispatches a command "p <plugin> <action> ..." for a
\* registered plugin that does not know the action
UnknownActionStep ==
    /\ DispatchStep
    /\ Head(queue).msg.data.kind = "Cmd"
    /\ shell_split(Head(queue).msg.data.cmd).ok
    /\ Len(HeadParts) >= 3
    /\ HeadParts[1] = <<"p">>
    /\ Registered(HeadParts[2])
    /\ \A a \in KnownActions(HeadParts[2][1]) : HeadParts[3] # <<a>>

\* C11: for every registered plugin, a command whose action the plugin does
\* not recognise produces one log at warn level and leaves the plugin
\* state unchanged.
C11_UnknownActionWarns ==
    [][UnknownActionStep
       => /\ plugins' = plugins
          /\ proc' = proc
          /\ Len(handlers') = 1
          /\ Len(handlers'[1].out) = 1
          /\ handlers'[1].out[1].msg.data.kind = "Log"
          /\ handlers'[1].out[1].msg.data.level = "WARN"]_vars

\* the (filename, hash) pairs of a list, with their multiplicities
PairBag(list) ==
    LET pairs == {<<list.file_list[i].filename, list.file_list[i].hash>> :
                    i \in 1..Len(list.file_list)}
    IN  [p \in pairs |-> Cardinality({i \in 1..Len(list.file_list) :
                            <<list.file_list[i].filename, list.file_list[i].hash>> = p})]

\* C12: two FileLists have the same hash_str exactly when they hold the
\* same multiset of (filename, hash) pairs, whatever the mtimes are.
C12_HashStrIffSamePairs ==
    plan.pc = "listed" =>
        ((plan.server_list.hash_str = plan.client_list.hash_str)
            <=> (PairBag(plan.server_list) = PairBag(plan.client_list)))

\* the entry of filename in a list
MetaOf(list, filename) == list.file_list[find_by_filename(list, filename)]

FilenamesOf(list) == {list.file_list[i].filename : i \in 1..Len(list.file_list)}

\* what the plan for server list S and client list C is to hold, as
\* (kind, filename) pairs
ExpectedPlan(S, C) ==
    {<<IF MetaOf(C, f).mtime > MetaOf(S, f).mtime THEN "PutFile" ELSE "GetFile", f>> :
        f \in {g \in FilenamesOf(S) \cap FilenamesOf(C) :
                 \/ MetaOf(C, g).hash # MetaOf(S, g).hash
                 \/ MetaOf(C, g).mtime # MetaOf(S, g).mtime}}
    \cup {<<"GetFile", f>> : f \in FilenamesOf(S) \ FilenamesOf(C)}
    \cup {<<"PutFile", f>> : f \in FilenamesOf(C) \ FilenamesOf(S)}

RpcFailStep ==
    \E k \in DOMAIN loops :
        /\ k \in DOMAIN loops'
        /\ loops[k].kind = "loop"
        /\ loops[k].pc # "failed"
        /\ loops'[k].pc = "failed"

\* C14: when an RPC of the client's reconciliation fails, the failure is a
\* silent no-op: the client NAS state is unchanged and the node keeps
\* running.
C14_RpcFailureIsNoOp ==
    [][RpcFailStep => /\ plugins'.nas_state = plugins.nas_state
                      /\ proc' = "running"]_vars

\* the names of the NasState values
NasStateNames == {"Unsync", "Synced", "Syncing", "Err"}

\* the consumer dispatches "p nas self_nas_state <state>" or
\* "p nas nas_state <name> <state>" whose state is no NasState
BadStateStep ==
    /\ DispatchStep
    /\ Head(queue).msg.data.kind = "Cmd"
    /\ shell_split(Head(queue).msg.data.cmd).ok
    /\ Len(HeadParts) >= 4
    /\ HeadParts[1] = <<"p">>
    /\ HeadParts[2] = <<"nas">>
    /\ \/ /\ HeadParts[3] = <<ACTION_SELF_NAS_STATE>>
          /\ \A x \in NasStateNames : HeadParts[4] # <<x>>
       \/ /\ HeadParts[3] = <<"nas_state">>
          /\ Len(HeadParts) >= 5
          /\ \A x \in NasStateNames : HeadParts[5] # <<x>>

\* C15: a nas_state or self_nas_state command whose state string is not
\* expected is logged at warn level and leaves the client NAS state and
\* every per-peer NasState unchanged.
C15_BadStateWarns ==
    [][BadStateStep
       => /\ plugins'.nas_state = plugins.nas_state
          /\ plugins'.nas_infos = plugins.nas_infos
          /\ proc' = proc
          /\ Len(handlers') = 1
          /\ \E i \in 1..Len(handlers'[1].out) :
                /\ handlers'[1].out[i].msg.data.kind = "Log"
                /\ handlers'[1].out[i].msg.data.level = "WARN"]_vars

\* C16: once the nas_state command of a POST /check_hash from peer N has
\* been routed on the server, the server's NasState for N is Synced if the
\* hash of the request equalled the hash of the server's list and Syncing
\* otherwise, for every name N.
C16_CheckHashSetsPeerState ==
    [][(/\ DispatchStep
        /\ Head(queue).origin.kind = "web_check_hash"
        /\ plugins.nas_server = CfgName)
       => LET i == FindNasInfo(plugins'.nas_infos, Head(queue).origin.name)
          IN  /\ i # 0
              /\ plugins'.nas_infos[i].nas_state
                    = IF Head(queue).origin.same THEN "Synced" ELSE "Syncing"]_vars

\* the consumer dispatches "p nas file_modify <name>" or
\* "p nas file_remove <name>" for a filename; a modified file is there
FileChangeStep ==
    /\ DispatchStep
    /\ Head(queue).msg.data.kind = "Cmd"
    /\ Len(HeadParts) = 4
    /\ HeadParts[1] = <<"p">>
    /\ HeadParts[2] = <<"nas">>
    /\ HeadParts[3] \in {<<"file_modify">>, <<"file_remove">>}
    /\ B64DecodeName(HeadParts[4]) # ""

\* the modified file is in the folder of this node
ChangedFileIsThere ==
    HeadParts[3] = <<"file_modify">>
        => IsFile(LocalFolder(plugins), B64DecodeName(HeadParts[4]))

\* the addresses the requests of the last handler went to
RpcTargets(h) == {h.rpcs[i].ip : i \in 1..Len(h.rpcs)}

\* C17: on the server, handling file_modify or file_remove sends PUT
\* (REMOVE) to exactly the clients recorded as onboard: never to the
\* server itself, never to a client whose onboard bit is false.
C17_ServerSendsToOnboardClients ==
    [][(FileChangeStep /\ ChangedFileIsThere /\ plugins.nas_server = CfgName)
       => RpcTargets(hist')
            = {plugins.nas_infos[i].tailscale_ip :
                 i \in {j \in 1..Len(plugins.nas_infos) :
                          /\ plugins.nas_infos[j].onboard
                          /\ plugins.nas_infos[j].name # plugins.nas_server}}]_vars

PendingOf(key) == {k \in DOMAIN loops : loops[k].key = key /\ loops[k].pc = "sleeping"}

\* the commands a step appended to the channel
NewCmds ==
    LET added == SubSeq(queue', Len(queue) + 1, Len(queue'))
    IN  [i \in {j \in DOMAIN added : added[j].msg.data.kind = "Cmd"} |-> added[i].msg.data.cmd]

\* the command of the nas plugin for an event of this kind on this path
FileCmd(key) ==
    <<"p", " ", "nas", " ",
      IF KindClass(key[2]) = "Modify" THEN "file_modify" ELSE "file_remove",
      " ", B64Name(key[1])>>

ServerOnboardStep ==
    /\ DispatchStep
    /\ Head(queue).msg.data.kind = "Cmd"
    /\ shell_split(Head(queue).msg.data.cmd).ok
    /\ HeadParts = <<<<"p">>, <<"nas">>, <<"devices">>, <<"onboard">>, NasServer, <<"1">>>>

\* the command dispatched is the one a re-onboard timer has sent
ReissuedOnboardStep == ServerOnboardStep /\ Head(queue).src = "retry"

SameBytesGetStep ==
    /\ plan.pc = "exec"
    /\ plan.i <= Len(plan.actions)
    /\ plan'.i = plan.i + 1
    /\ plan.actions[plan.i].kind = "GetFile"
    /\ IsFile(srvFolder, plan.actions[plan.i].filename)
    /\ IsFile(cliFolder, plan.actions[plan.i].filename)
    /\ cliFolder[plan.actions[plan.i].filename].content
         = srvFolder[plan.actions[plan.i].filename].content

\* C21: write_file on a file that already holds the bytes the content
\* encodes writes nothing and leaves the mtime as it was, whatever mtime is
\* passed; a second write_file of the same content after a first one
\* changes nothing.
C21_WriteFileShortCircuits ==
    /\ [][SameBytesGetStep => cliFolder' = cliFolder]_vars
    /\ [](\A f \in Names, c \in Contents, m1 \in Mtimes, m2 \in Mtimes :
            LET once == write_file(cliFolder, f, B64Encode(c), ToRfc3339(m1))
            IN  /\ (IsFile(cliFolder, f) /\ cliFolder[f].content = c) => once = cliFolder
                /\ write_file(once, f, B64Encode(c), ToRfc3339(m2)) = once)

\* a GetFile has run for a file the client held with the bytes of the
\* server and another mtime, and the mtime of the client is still the other
C21_Witness ==
    /\ plan.pc = "exec"
    /\ plan.i > 1
    /\ plan.actions[plan.i - 1].kind = "GetFile"
    /\ LET f == plan.actions[plan.i - 1].filename
       IN  /\ IsFile(srvFolder, f) /\ IsFile(cliFolder, f)
           /\ cliFolder[f].content = srvFolder[f].content
           /\ cliFolder[f].mtime # srvFolder[f].mtime

\* loop k receives the response to the POST /check_hash of its first pass
FirstCheckHashStep(k) ==
    /\ loops[k].kind = "loop"
    /\ loops[k].pc = "post"
    /\ loops[k].rounds = 0
    /\ Len(loops') = Len(loops)
    /\ loops'[k].pc = "report"

\* a loop sends the command of a check_hash that matched
MatchedCmdStep ==
    /\ Len(queue') = Len(queue) + 1
    /\ queue'[Len(queue')].origin.kind = "check_hash"
    /\ queue'[Len(queue')].origin.result = 0

\* C22: a reconciliation loop whose list hashes like the list of the
\* server receives result 0 from its first POST /check_hash, runs no action
\* of a plan (no download, verify_hash or upload), sends the command
\* Synced and ends; handling that command leaves the client Synced.
C22_SyncedPeerOneRound ==
    /\ [][\A k \in DOMAIN loops :
            (FirstCheckHashStep(k)
               /\ loops[k].list.hash_str = FileListNew(srvFolder).hash_str)
            => /\ loops'[k].result = 0
               /\ loops'[k].rounds = 1]_vars
    /\ [](\A k \in DOMAIN loops :
            (loops[k].kind = "loop" /\ loops[k].result = 0 /\ loops[k].rounds = 1)
            => /\ loops[k].pc \in {"report", "state"}
               /\ loops[k].actions = <<>>)
    /\ [][MatchedCmdStep
           => /\ Len(loops') = Len(loops) - 1
              /\ queue'[Len(queue')].msg.data.cmd
                   = <<"p", " ", "nas", " ", ACTION_SELF_NAS_STATE, " ", "Synced">>
              /\ srvFolder' = srvFolder /\ cliFolder' = cliFolder]_vars
    /\ [][(DispatchStep /\ Head(queue).origin.kind = "check_hash"
             /\ Head(queue).origin.result = 0)
           => plugins'.nas_state = "Synced" /\ proc' = "running"]_vars

\* both folders are empty as they were at the start, the loop has ended
\* and its command has made the client Synced
C22_Witness ==
    /\ srvFolder = EmptyFolder /\ cliFolder = EmptyFolder
    /\ loops = <<>>
    /\ plugins.nas_state = "Synced"
    /\ hist.lastOrigin.kind = "check_hash"
    /\ hist.lastOrigin.result = 0

\* C23: POST /upload, /remove and /download with a filename that is
\* absolute or has a component other than a normal name or "." answer 400
\* and read, write or delete no file.
C23_InvalidFilenameRejected ==
    (hist.endpoint # "none"
       /\ (IsAbsolute(hist.filename)
            \/ \E i \in DOMAIN PathPieces(hist.filename, 1, <<>>) :
                  PathPieces(hist.filename, 1, <<>>)[i] = <<"..">>))
    => /\ hist.status = 400
       /\ hist.touched = {}
       /\ srvFolder = hist.before

\* a request to remove ./nas/../nas/a, a file the node holds, was refused
C23_Witness ==
    /\ hist.endpoint = "remove"
    /\ hist.filename = <<".", "/", "nas", "/", "..", "/", "nas", "/", "a">>
    /\ IsFile(srvFolder, "./nas/a")
    /\ hist.status = 400

\* the entries n - MAX_OUTPUT_LEN + 1 .. n of the pushes to a panel
LastPushes(n) == [j \in 1..MAX_OUTPUT_LEN |-> <<ToString(n - MAX_OUTPUT_LEN + j)>>]

\* C24: the output of every panel holds at most MAX_OUTPUT_LEN entries,
\* and after n > MAX_OUTPUT_LEN pushes to a panel its entries are the last
\* MAX_OUTPUT_LEN of them, in the order they were pushed.
C24_OutputCap ==
    \A i \in DOMAIN plugins.panels :
        /\ Len(plugins.panels[i].output) <= MAX_OUTPUT_LEN
        /\ hist.pushed[plugins.panels[i].title] > MAX_OUTPUT_LEN
             => plugins.panels[i].output = LastPushes(hist.pushed[plugins.panels[i].title])

\* the same where the terminal of the unit is still there
C24_OutputCapWithTerminal ==
    \A i \in DOMAIN plugins.panels :
        /\ Len(plugins.panels[i].output) <= MAX_OUTPUT_LEN
        /\ (plugins.terminal /\ hist.pushed[plugins.panels[i].title] > MAX_OUTPUT_LEN)
             => plugins.panels[i].output = LastPushes(hist.pushed[plugins.panels[i].title])

\* what a size or location command adds to the fields x, y, width, height
\* of a panel: one point, nothing at a floor
GeometryAfter(p, words) ==
    CASE words = <<" ", "size", " ", "+x">> -> [p EXCEPT !.width = @ + 1]
      [] words = <<" ", "size", " ", "-x">> -> [p EXCEPT !.width = IF @ = 2 THEN 2 ELSE @ - 1]
      [] words = <<" ", "size", " ", "+y">> -> [p EXCEPT !.height = @ + 1]
      [] words = <<" ", "size", " ", "-y">> -> [p EXCEPT !.height = IF @ = 2 THEN 2 ELSE @ - 1]
      [] words = <<" ", "location", " ", "up">> -> [p EXCEPT !.y = IF @ = 0 THEN 0 ELSE @ - 1]
      [] words = <<" ", "location", " ", "down">> -> [p EXCEPT !.y = @ + 1]
      [] words = <<" ", "location", " ", "left">> -> [p EXCEPT !.x = IF @ = 0 THEN 0 ELSE @ - 1]
      [] words = <<" ", "location", " ", "right">> -> [p EXCEPT !.x = @ + 1]

\* C25: a size +x/-x/+y/-y or location up/down/left/right command changes
\* the addressed field of the active panel by one point, or by nothing at
\* a floor, and leaves every other panel, every other field and the active
\* index as they were.
C25_GeometryStepsByOne ==
    (hist.cmd \in GeometryCmds)
    => /\ proc = "running"
       /\ plugins.active_panel = hist.before.active_panel
       /\ plugins.panels =
            [hist.before.panels EXCEPT ![hist.before.active_panel + 1] =
                                         GeometryAfter(@, hist.cmd)]

\* C26: on Enter the key loop sends the edit buffer as a command, appends
\* it to history unless it equals the last entry of history, and in both
\* cases puts the history cursor at the end of history and empties the
\* edit buffer.
C26_EnterCommitsAndResets ==
    (hist.key = "Enter")
    => /\ plugins.output = <<>>
       /\ plugins.history =
            IF hist.before.history # <<>>
               /\ hist.before.history[Len(hist.before.history)] = hist.before.output
            THEN hist.before.history
            ELSE Append(hist.before.history, hist.before.output)
       /\ plugins.history_index = Len(plugins.history)
       /\ Len(queue) >= 2
       /\ queue[Len(queue) - 1].msg = CmdMsg(now, "cli", hist.before.output)

\* a step in which a task of the mqtt plugin sends the restart command
RestartIssuedStep == hist'.restarts = hist.restarts + 1

\* a step in which the consumer hands a restart command to the mqtt plugin
RestartHandledStep ==
    /\ queue # <<>>
    /\ Len(queue[1].msg.data.cmd) >= 5
    /\ SubSeq(queue[1].msg.data.cmd, 1, 5) = <<"p", " ", "mqtt", " ", "restart">>
    /\ hist'.last = "restart"
    /\ hist'.starts # hist.starts \/ loops' # loops \/ queue' # queue

\* C27: a task of the mqtt plugin sends a restart command only out of the
\* sleep that follows its poll error, RESTART_DELAY seconds after the error,
\* no more often than polls have failed, and never once shutdown has been
\* signalled; the restart command, once handled, runs start_mqtt again:
\* steps 1 to 4 are logged and one more task is spawned.
C27_RestartUnlessShutdown ==
    [][/\ RestartIssuedStep =>
            /\ hist.shutdownSent = 0
            /\ hist'.restarts <= hist.errors
            /\ \E k \in DOMAIN loops :
                /\ loops[k].pc = "sleep" /\ loops'[k].pc = "done"
                /\ now = loops[k].err + RESTART_DELAY
       /\ RestartHandledStep =>
            /\ Len(loops') = Len(loops) + 1
            /\ loops'[Len(loops')].pc = "receive"
            /\ Len(queue') = Len(queue) - 1 + 4]_vars

\* the part of C27 that does not depend on shutdown
C27_RestartAfterDelay ==
    [][/\ RestartIssuedStep =>
            /\ hist'.restarts <= hist.errors
            /\ \E k \in DOMAIN loops :
                /\ loops[k].pc = "sleep" /\ loops'[k].pc = "done"
                /\ now = loops[k].err + RESTART_DELAY
       /\ RestartHandledStep =>
            /\ Len(loops') = Len(loops) + 1
            /\ loops'[Len(loops')].pc = "receive"
            /\ Len(queue') = Len(queue) - 1 + 4]_vars

\* a task that met shutdown in its select sends no restart
C27_FlaggedTaskEnds ==
    \A k \in DOMAIN loops : loops[k].shoutdown_flag => loops[k].pc = "done"

\* whether the step of hist sent the command cmd
DevSent(cmd) == \E i \in 1..Len(hist.out) : hist.out[i].data.cmd = cmd

\* the words of the command the devices plugin handled last
DevParts == shell_split(hist.cmd).parts

\* the devices plugin has handled an onboard report: "p devices onboard
\* <name> <bit>"
OnboardReport ==
    /\ hist.last = "devices"
    /\ ~hist.panic
    /\ Len(DevParts) >= 5
    /\ DevParts[3] = <<"onboard">>

\* the report says onboard of a name that was not recorded, or recorded off
NewlyOnboard ==
    LET i == FindDevice(hist.before.devices, DevParts[4])
    IN  /\ DevParts[5] = <<"1">>
        /\ i = 0 \/ ~hist.before.devices[i].onboard

Recorded(d, key, payload) ==
    CASE key = <<"onboard">> -> d.onboard = (payload = <<"1">>)
      [] key = <<"version">> -> d.version = DevSome(payload)
      [] key = <<"tailscale_ip">> -> d.tailscale_ip = DevSome(payload)
      [] key = <<"temperature">> -> d.temperature = DevSome(payload)
      [] OTHER -> FALSE

\* C29: for a publish on tln/<peer>/<key> with a forwarded key the mqtt task
\* sends "p devices <key> <peer> <payload>", and once the devices plugin
\* has handled that command the DevInfo of the peer holds the payload and
\* "p infos devices <key> <peer> <payload>" has been sent.
C29_PublishUpdatesAndRebroadcasts ==
    /\ hist.last = "publish" /\ hist.origin.key \in ForwardedKeys =>
            DevSent(<<"p", " ", "devices", " ">> \o hist.origin.key \o <<" ">>
                    \o hist.origin.peer \o <<" ">> \o hist.origin.payload)
    /\ hist.last = "devices" /\ hist.origin.kind = "publish" =>
            LET o == hist.origin
                i == FindDevice(plugins.devices, o.peer)
            IN  /\ ~hist.panic
                /\ i # 0
                /\ Recorded(plugins.devices[i], o.key, o.payload)
                /\ DevSent(<<"p", " ", "infos", " ", "devices", " ">> \o o.key \o <<" ">>
                           \o o.peer \o <<" ">> \o o.payload)

\* the part of C29 that holds: the forward of the mqtt task, and the update
\* and re-broadcast for a word of payload, a peer whose name is one word and
\* is recorded, and a key other than app_uptime (a temperature being a number)
C29_KnownPeerUpdated ==
    /\ hist.last = "publish" /\ hist.origin.key \in ForwardedKeys =>
            DevSent(<<"p", " ", "devices", " ">> \o hist.origin.key \o <<" ">>
                    \o hist.origin.peer \o <<" ">> \o hist.origin.payload)
    /\ /\ hist.last = "devices" /\ hist.origin.kind = "publish"
       /\ Len(hist.origin.peer) = 1 /\ Len(hist.origin.payload) = 1
       /\ hist.origin.key # <<"app_uptime">>
       /\ hist.origin.key = <<"temperature">> => IsF32(hist.origin.payload)
       /\ hist.origin.key = <<"onboard">>
            \/ FindDevice(hist.before.devices, hist.origin.peer) # 0
       => LET o == hist.origin
              i == FindDevice(plugins.devices, o.peer)
          IN  /\ ~hist.panic
              /\ i # 0
              /\ Recorded(plugins.devices[i], o.key, o.payload)
              /\ DevSent(<<"p", " ", "infos", " ", "devices", " ">> \o o.key \o <<" ">>
                         \o o.peer \o <<" ">> \o o.payload)

\* the recorded NasState of name in the NasInfos infos, "none" without one
RecordedState(infos, name) ==
    LET i == FindNasInfo(infos, name)
    IN  IF i = 0 THEN "none" ELSE infos[i].nas_state

\* the server has handled a device event of name
ServerEventOf(name) ==
    /\ Len(hist.cmd) >= 6
    /\ hist.cmd[3] = <<"devices">>
    /\ hist.cmd[4] = <<"onboard">>
    /\ hist.cmd[5] = name

\* C30: on the server, after an Offboard event of a client has been handled
\* the recorded NasState of that client is Unsync, whatever it was; an
\* Onboard event of a client leaves its recorded NasState as it was (Unsync
\* for a client recorded by that event); an event of the server itself
\* leaves every recorded NasState as it was; and no event changes the
\* recorded NasState of another node.
C30_ServerEventStates ==
    \A name \in {<<"c2">>, <<"c3">>, CfgName} :
        ServerEventOf(name) =>
            /\ proc = "running"
            /\ name # CfgName /\ hist.cmd[6] # <<"1">> =>
                    RecordedState(plugins.nas_infos, name) = "Unsync"
            /\ name # CfgName /\ hist.cmd[6] = <<"1">> =>
                    RecordedState(plugins.nas_infos, name)
                        = IF RecordedState(hist.before, name) = "none" THEN "Unsync"
                          ELSE RecordedState(hist.before, name)
            /\ \A other \in {<<"c2">>, <<"c3">>, CfgName} :
                    other # name \/ name = CfgName =>
                        RecordedState(plugins.nas_infos, other)
                            = RecordedState(hist.before, other)

\* a client recorded as Synced has gone offboard and is recorded as Unsync
C30_Witness ==
    /\ ServerEventOf(<<"c2">>)
    /\ hist.cmd[6] = <<"0">>
    /\ RecordedState(hist.before, <<"c2">>) = "Synced"
    /\ RecordedState(plugins.nas_infos, <<"c2">>) = "Unsync"

\* C31: the active index designates a panel whenever there is one, and a tab
\* command never fails: handled by the inited plugin it leaves the process
\* running and, with n panels, the active index at (active + 1) modulo n.
C31_TabAdvancesModulo ==
    /\ Len(plugins.panels) >= 1 => plugins.active_panel < Len(plugins.panels)
    /\ hist.cmd = <<" ", "tab">> =>
            /\ proc = "running"
            /\ hist.before.inited /\ Len(hist.before.panels) >= 1 =>
                    plugins.active_panel
                        = (hist.before.active_panel + 1) % Len(hist.before.panels)

\* the part of C31 that holds: the active index designates a panel whenever
\* there is one, and tab with the terminal and a panel advances it
C31_TabWithPanels ==
    /\ Len(plugins.panels) >= 1 => plugins.active_panel < Len(plugins.panels)
    /\ /\ hist.cmd = <<" ", "tab">>
       /\ hist.before.terminal
       /\ Len(hist.before.panels) >= 1
       => /\ proc = "running"
          /\ plugins.active_panel
                = (hist.before.active_panel + 1) % Len(hist.before.panels)

\* C32: x, y, width and height of every panel are within 0..100.
C32_GeometryIsPercentage ==
    \A i \in 1..Len(plugins.panels) :
        /\ plugins.panels[i].x \in 0..100
        /\ plugins.panels[i].y \in 0..100
        /\ plugins.panels[i].width \in 0..100
        /\ plugins.panels[i].height \in 0..100

\* C38: a command other than init handled before init leaves the panels,
\* their outputs and the active index as they were, and the process running.
C38_NothingBeforeInit ==
    hist.cmd # <<>> /\ hist.cmd # <<" ", "init">> /\ ~hist.before.inited =>
        /\ proc = "running"
        /\ plugins.panels = hist.before.panels
        /\ plugins.active_panel = hist.before.active_panel

\* a create with all its arguments has been handled before init
C38_Witness ==
    /\ Len(hist.cmd) > 4
    /\ hist.cmd[2] = "create"
    /\ ~hist.before.inited
    /\ plugins.panels = <<>>

C39_GuardedInitOnce ==
    /\ \A p \in SpawningPlugins \ {"todos"} : task[p] <= 1
    /\ hist.again /\ hist.cmd # "todos"
         => /\ plugins = hist.before
            /\ task = hist.tasks

\* the consumer awaits a send of the routine it dispatched while the channel
\* its own loop drains is full
ConsumerBlocked ==
    /\ proc = "running"
    /\ pc = "await"
    /\ handlers # <<>>
    /\ Len(queue) = QueueCap

\* C33: the consumer never blocks forever: it is never awaiting a send onto
\* the full channel that only it drains, so every message in the channel is
\* routed in the end.
C33_ConsumerNeverBlocked == ~ConsumerBlocked

\* a blocked consumer stays blocked for as long as the process runs: no
\* message leaves the channel
C33_BlockedForGood ==
    [][ConsumerBlocked /\ proc' = "running" => ConsumerBlocked' /\ queue' = queue]_vars

\* the nas plugin records the server as onboard
ServerOnboardIn(st) ==
    \E i \in DOMAIN st.nas_infos :
        st.nas_infos[i].name = NasServer /\ st.nas_infos[i].onboard

\* C34: on a client, a re-issued onboard command handled while the server is
\* recorded offboard (the last report from MQTT handled was `0`) neither
\* records the server as onboard nor starts a loop or a further timer.
C34_RetryAfterOffboardIgnored ==
    [][ReissuedOnboardStep /\ ~ServerOnboardIn(plugins)
          => ~ServerOnboardIn(plugins') /\ loops' = loops]_vars

\* C36: every file an endpoint reads, writes, deletes or compares a hash
\* for lies in the shared folder: a request leaves the configuration file
\* next to the folder as it was, touches no file outside the folder, and
\* /verify_hash answers 1 for a path outside it.
C36_OnlySharedFolder ==
    hist.endpoint # "none" =>
        /\ hist.touched \subseteq Names
        /\ srvFolder[CfgFile] = hist.before[CfgFile]
        /\ Resolve(hist.filename) \notin Names => hist.result = 1 /\ hist.status # 200

\* the part of C36 that holds: /upload, /remove and /download refuse a path
\* that is absolute or climbs with "..", and touch nothing for it
C36_ClimbingPathRefused ==
    /\ hist.endpoint \in {"upload", "remove", "download"}
    /\ ~is_valid_filename(hist.filename)
    => /\ hist.status = 400
       /\ hist.touched = {}
       /\ srvFolder = hist.before

\* C35: a file written by /upload does not bounce: the PUT its report leads
\* to sends no upload back to the node the file came from, no node is sent
\* more uploads than files were modified, and the fleet comes to rest with
\* no report and no PUT pending.
C35_NoBounce ==
    /\ [](/\ hist.back = 0
          /\ \A n \in Fleet : hist.uploads[n] <= hist.mods)
    /\ <>[](queue = {})

\* the part of C35 that holds: while one file has been modified once,
\* at most one upload is sent to every peer, none to the node of the
\* modification and none back; and the fleet always comes to rest
C35_OneModificationNoBounce ==
    /\ [](hist.mods = 1 =>
            /\ \A n \in Fleet : hist.uploads[n] <= 1
            /\ hist.uploads[hist.origin] = 0
            /\ hist.back = 0)
    /\ <>[](queue = {})

\* C37: whenever the channel is empty, the infos plugin holds the NAS state
\* of the nas plugin: on a client the state of the node, on the server the
\* state recorded for every peer the nas plugin knows.
C37_InfosMirrorsNas ==
    proc = "running" /\ queue = <<>> =>
        IF plugins.nas.nas_server = CfgName
        THEN \A i \in DOMAIN plugins.nas.nas_infos :
                \E j \in DOMAIN plugins.infos.nas_infos :
                    /\ plugins.infos.nas_infos[j].name = plugins.nas.nas_infos[i].name
                    /\ plugins.infos.nas_infos[j].nas_state
                         = plugins.nas.nas_infos[i].nas_state
        ELSE plugins.infos.nas_state = plugins.nas.nas_state

\* the server holds a client that has reported Synced, and every command
\* has been routed
C37_Witness ==
    /\ proc = "running"
    /\ queue = <<>>
    /\ plugins.nas.nas_server = CfgName
    /\ \E i \in DOMAIN plugins.nas.nas_infos :
          plugins.nas.nas_infos[i].nas_state = "Synced"

\* a file command of the monitor plugin for the file ./nas/a
FileChangeParts(action) == <<<<"p">>, <<"nas">>, <<action>>, <<B64Name("./nas/a")>>>>

\* C40: whenever the client is Synced the nas plugin knows the address of
\* the server, so file_modify and file_remove handled in that state do not
\* fail on the address.
C40_SyncedKnowsServerIp ==
    proc = "running" /\ plugins.nas_state = "Synced" =>
        /\ get_nas_server_ip(plugins) # <<>>
        /\ \A action \in {"file_modify", "file_remove"} :
              handle_cmd_file_change(plugins, action, FileChangeParts(action)).kind
                 # "panic"

\* the client is Synced after the server came on board before its address
\* was published and a re-issued onboard command started the loop
C40_Witness ==
    /\ proc = "running"
    /\ plugins.nas_state = "Synced"
    /\ hist.retries >= 1
    /\ handle_cmd_file_change(plugins, "file_modify", FileChangeParts("file_modify")).rpcs
          # <<>>

====
